---- MODULE Spec2Model ----
(***************************************************************************)
(* A state-machine model of the Metronome timing core (metronome.py), its  *)
(* section data type (song_section.py) and the handlers of the control     *)
(* context that drive it (ui.py).                                          *)
(*                                                                         *)
(* Two execution contexts are modelled: the control context (the Tk main   *)
(* thread: ctl_pc) and the playback thread running Metronome.play (pc).    *)
(* Timestamps are fixed-point numbers, TimeUnitsPerSecond to the second;   *)
(* a Python float division is modelled by a floor division in that unit.   *)
(* A Python value that is None or an object is a sequence of length 0 or 1.*)
(* A value that may be text or a number is a record [numeric, value].      *)
(***************************************************************************)
EXTENDS Integers, Sequences, FiniteSets, TLC

\* ------------------------------------------------------------ config.py
DEFAULT_BPM == 120
DEFAULT_BEATS_PER_BAR == 4
DEFAULT_SUBDIVISIONS == 1
DEFAULT_TIMER_DURATION == 0
DEFAULT_TEMPO_CHANGE_STEP == 5
DEFAULT_TEMPO_CHANGE_INTERVAL == 4
DEFAULT_COUNT_IN_BARS == 2
MIN_BPM == 20
MAX_BPM == 250
DEFAULT_COUNTIN_SAMPLE == "hihat-808.wav"
DEFAULT_ACCENTED_SAMPLE == "kick-808.wav"
DEFAULT_REGULAR_SAMPLE == "hihat-808.wav"
\* Volumes are in hundredths: 1.0, 0.8 and 0.6.
DEFAULT_ACCENTED_VOLUME == 100
DEFAULT_REGULAR_VOLUME == 80
DEFAULT_COUNTIN_VOLUME == 60

\* ------------------------------------------------------------ bounds
\* Samples dispatched by one run of the playback loop (count-in included).
MaxEmitted == 5
\* Operations of the control context in one behaviour.
MaxOps == 3
\* The same two bounds for the behaviours of the section sequencer
\* (SpecSequencer): a count-in of eight and five ticks;
\* load, start, stop and start again.
MaxSequencerEmitted == 13
MaxSequencerOps == 4
\* The same two bounds for the behaviours of the per-tick dispatch
\* (SpecDispatch): a count-in of eight and a first tick, or nine ticks, and
\* one to spare.
MaxDispatchEmitted == 10
MaxDispatchOps == 2
\* The same two bounds for the behaviours of the timer and the tempo change
\* (SpecTempo): a count-in of one and nine ticks; mode, load and start,
\* or start, stop and start.
MaxTempoEmitted == 10
MaxTempoOps == 3
\* Taps of the tap-tempo button in one behaviour (SpecTapTempo).
MaxTaps == 4
MaxSwingEmitted == 6
MaxSwingOps == 3
MaxSetlistEmitted == 5
MaxSetlistOps == 4
MaxEntries == 3
MaxEdits == 3

\* ------------------------------------------------------------ time
TimeUnitsPerSecond == 3 * 1000
\* Per-tick processing time (sample dispatch, scheduling jitter) before the
\* loop reads the clock to compute its sleep: none, or 0.4 s.
JitterSet == {0, (4 * TimeUnitsPerSecond) \div 10}

\* ------------------------------------------------------------ Python arithmetic
\* a // b for b # 0: floor division.
PyFloorDiv(a, b) ==
    IF b > 0 THEN a \div b ELSE (-a) \div (-b)

\* a % b for b # 0: the result has the sign of b.
PyMod(a, b) ==
    IF b > 0 THEN a % b ELSE -((-a) % (-b))

Max(a, b) == IF a >= b THEN a ELSE b
Min(a, b) == IF a <= b THEN a ELSE b

\* A value that is a number (or numeric text), and one that is other text.
Num(n) == [numeric |-> TRUE, value |-> n]
Text == [numeric |-> FALSE, value |-> 0]

None == << >>
Some(x) == << x >>

\* ------------------------------------------------------------ Python floats
\* A Python float is an IEEE 754 binary64 number: a significand of 53 bits and
\* an exponent, every operation rounded to the nearest such number, a tie to
\* the one with the even significand.  Here a positive float is a record
\* [m, e] that stands for m * 2^e, where m has exactly 53 bits.  Significands
\* and the exact results before rounding are naturals of any size, written
\* as sequences of limbs of LimbBits bits, the least significant first, the
\* last one not 0 (so that 0 is the empty sequence).
SignificandBits == 53
LimbBits == 13
LimbBase == 2 ^ LimbBits

RECURSIVE BigFromNat(_)
BigFromNat(n) ==
    IF n = 0 THEN << >>
    ELSE << n % LimbBase >> \o BigFromNat(n \div LimbBase)

RECURSIVE BigAddCarry(_, _, _)
BigAddCarry(x, y, c) ==
    IF x = << >> /\ y = << >>
    THEN (IF c = 0 THEN << >> ELSE << c >>)
    ELSE LET a == IF x = << >> THEN 0 ELSE Head(x)
             b == IF y = << >> THEN 0 ELSE Head(y)
             t == a + b + c
         IN  << t % LimbBase >>
             \o BigAddCarry(IF x = << >> THEN x ELSE Tail(x),
                            IF y = << >> THEN y ELSE Tail(y),
                            t \div LimbBase)

BigAdd(x, y) == BigAddCarry(x, y, 0)

\* x * k + c for a natural k below 2^17.
RECURSIVE BigMulSmall(_, _, _)
BigMulSmall(x, k, c) ==
    IF x = << >> THEN BigFromNat(c)
    ELSE LET t == Head(x) * k + c
         IN  << t % LimbBase >> \o BigMulSmall(Tail(x), k, t \div LimbBase)

\* x * LimbBase^n.
BigShiftLimbs(x, n) ==
    IF x = << >> THEN x ELSE [i \in 1..n |-> 0] \o x

RECURSIVE BigMul(_, _)
BigMul(x, y) ==
    IF x = << >> \/ y = << >> THEN << >>
    ELSE BigAdd(BigMulSmall(x, Head(y), 0),
                BigShiftLimbs(BigMul(x, Tail(y)), 1))

\* The limbs of x without the zeros at the significant end.
RECURSIVE BigNorm(_)
BigNorm(x) ==
    IF x = << >> THEN x
    ELSE IF x[Len(x)] = 0 THEN BigNorm(SubSeq(x, 1, Len(x) - 1))
    ELSE x

\* The quotient and the remainder of x by a natural d, 0 < d < 2^17, from
\* the most significant limb down.
RECURSIVE BigDivSmallFrom(_, _, _)
BigDivSmallFrom(x, d, r) ==
    IF x = << >> THEN [q |-> << >>, r |-> r]
    ELSE LET t == r * LimbBase + x[Len(x)]
             rest == BigDivSmallFrom(SubSeq(x, 1, Len(x) - 1), d, t % d)
         IN  [q |-> rest.q \o << t \div d >>, r |-> rest.r]

BigDivSmall(x, d) ==
    LET qr == BigDivSmallFrom(x, d, 0)
    IN  [q |-> BigNorm(qr.q), r |-> qr.r]

\* The number of bits of a natural below LimbBase, and of any natural.
RECURSIVE BitLen(_)
BitLen(n) == IF n = 0 THEN 0 ELSE 1 + BitLen(n \div 2)

BigBitLen(x) ==
    IF x = << >> THEN 0 ELSE (Len(x) - 1) * LimbBits + BitLen(x[Len(x)])

\* x * 2^k.
BigShiftLeft(x, k) ==
    BigShiftLimbs(BigMulSmall(x, 2 ^ (k % LimbBits), 0), k \div LimbBits)

\* x \div 2^k, and whether a bit that is 1 was lost.
BigShiftRight(x, k) ==
    LET n == k \div LimbBits
        dropped == SubSeq(x, 1, Min(n, Len(x)))
        kept == SubSeq(x, n + 1, Len(x))
        qr == BigDivSmall(kept, 2 ^ (k % LimbBits))
    IN  [q |-> qr.q,
         lost |-> qr.r # 0 \/ \E i \in 1..Len(dropped) : dropped[i] # 0]

BigIsOdd(x) == x # << >> /\ x[1] % 2 = 1

\* The float nearest to (n + f) * 2^e for a natural n > 0 and a fraction
\* 0 <= f < 1 of which only "inexact", f # 0, is known (n has more than 53
\* bits whenever it is inexact).
F64Round(n, e, inexact) ==
    LET len == BigBitLen(n)
    IN  IF len <= SignificandBits
        THEN [m |-> BigShiftLeft(n, SignificandBits - len),
              e |-> e - (SignificandBits - len)]
        ELSE LET s == len - SignificandBits
                 above == BigShiftRight(n, s - 1)
                 half == BigIsOdd(above.q)
                 q == BigShiftRight(above.q, 1).q
                 more == inexact \/ above.lost
                 up == half /\ (more \/ BigIsOdd(q))
                 r == IF up THEN BigAdd(q, << 1 >>) ELSE q
             IN  IF BigBitLen(r) > SignificandBits
                 THEN [m |-> BigShiftRight(r, 1).q, e |-> e + s + 1]
                 ELSE [m |-> r, e |-> e + s]

\* The bits by which a numerator is scaled before an integer division, so
\* that the quotient has more than 53 bits.
DivisionScale == 6 * LimbBits

\* n / d for integers 0 < n, 0 < d < 2^17: Python's true division of two
\* ints is the float nearest to the quotient.
F64DivInt(n, d) ==
    LET qr == BigDivSmall(BigShiftLeft(BigFromNat(n), DivisionScale), d)
    IN  F64Round(qr.q, 0 - DivisionScale, qr.r # 0)

\* x * y and x + y for positive floats.
F64Mul(x, y) == F64Round(BigMul(x.m, y.m), x.e + y.e, FALSE)

F64Add(x, y) ==
    LET e == Min(x.e, y.e)
    IN  F64Round(BigAdd(BigShiftLeft(x.m, x.e - e),
                        BigShiftLeft(y.m, y.e - e)), e, FALSE)

\* ------------------------------------------------------------ song_section.py
\* The mutant of __post_init__: the subdivisions check is missing.
post_init_raises_no_subdivisions_check(s) ==
    \/ s.bars <= 0
    \/ s.bpm <= 0
    \/ s.beats_per_bar <= 0

\* SongSection.__post_init__: TRUE when construction raises ValueError.
post_init_raises(s) ==
    \/ s.bars <= 0
    \/ s.bpm <= 0
    \/ s.beats_per_bar <= 0
    \/ s.subdivisions <= 0

\* SongSection.from_dict: builds the section from the six keys of the
\* dictionary; the dataclass constructor then runs __post_init__.
SongSection_from_dict(data) ==
    LET s == [name |-> data.name,
              bars |-> data.bars,
              bpm |-> data.bpm,
              beats_per_bar |-> data.beats_per_bar,
              subdivisions |-> data.subdivisions,
              swing_enabled |-> data.swing_enabled]
    IN [raises |-> post_init_raises(s), value |-> s]

\* Song.from_dict: the list comprehension over data['sections']; the first
\* section that fails to construct propagates its ValueError.
Song_from_dict(data) ==
    [raises |-> \E i \in 1..Len(data) : SongSection_from_dict(data[i]).raises,
     sections |-> [i \in 1..Len(data) |-> SongSection_from_dict(data[i]).value]]

\* Section dictionaries as they may stand in a song file.
Dict(n, bars, bpm_, beats, subdiv, swing) ==
    [name |-> n, bars |-> bars, bpm |-> bpm_, beats_per_bar |-> beats,
     subdivisions |-> subdiv, swing_enabled |-> swing]

DictA == Dict("A", 1, 120, 2, 1, FALSE)
DictB == Dict("B", 2, 300, 1, 2, TRUE)
DictC == Dict("C", 1, 10, 1, 1, FALSE)
DictBadBars == Dict("A", 0, 120, 2, 1, FALSE)
DictBadBpm == Dict("A", 1, -120, 2, 1, FALSE)
DictBadBeats == Dict("A", 1, 120, 0, 1, FALSE)
DictBadSubdivisions == Dict("A", 1, 120, 2, 0, TRUE)

\* The song files the control context may load: lists of section
\* dictionaries, valid and invalid, the empty song included.
SongFiles ==
    { << >>, <<DictB>>, <<DictC, DictA>>,
      <<DictBadBars>>, <<DictBadBpm>>, <<DictA, DictBadBeats>>,
      <<DictBadSubdivisions, DictA>> }

\* ------------------------------------------------------------ state
VARIABLES
    \* Metronome fields (metronome.py, __init__ and start)
    running,                \* _running, the threading.Event
    thread,                 \* None, or Some("Thread")
    bpm,
    beats_per_bar,
    subdivisions,
    count_in_enabled,
    count_in_bars,
    tempo_change_mode,
    tempo_change_step,      \* [numeric, value]
    tempo_change_interval,  \* [numeric, value]
    timer_duration,
    swing_enabled,
    current_section_index,
    current_section,        \* None, or Some(section)
    sections,
    start_time,
    next_tick_time,
    on_beat,                \* None, or Some(the callable registered)
    \* SoundManager fields (sound_manager.py, __init__)
    sound_manager,          \* the sample names and volumes configured
    \* the playback thread: its position in play() and the locals of play()
    pc,
    tick_count,
    bar_count,
    countin_left,           \* iterations left of the count-in for loop
    accented_sample_name,
    regular_sample_name,
    accented_volume,
    regular_volume,
    \* the control context
    ctl_pc,                 \* "ready", or "joining" inside stop()
    song,                   \* the sections of the song the control context holds
    raised,                 \* the exception the last control operation raised
    ops,                    \* control operations so far
    last_call,              \* the handler the control context ran last
    tap_times,              \* _tap_times, the times of the taps of the tap-tempo button
    current_setlist,        \* None, or Some(the entries of the setlist loaded)
    setlist_active,         \* _setlist_active
    timers,                 \* the callbacks handed to root.after that have not run yet
    walk,                   \* the setlist walks so far, and those a stop cancelled
    started,                \* the songs the setlist walks started, in order
    \* the environment
    now,                    \* what time.time() returns
    \* history of the current run
    exit_reason,            \* how play() ended: "none", "stop", "timer", "exhausted", "exception"
    emitted,                \* play_sample calls of this run
    notified,               \* on_beat calls of this run
    since_clear,            \* play_sample calls since stop() cleared the flag
    delay_sum,              \* the sum of the delays computed in this run
    stopped,                \* stop() has returned and start() has not been called since
    countin_emitted,        \* count-in samples of this run
    countin_calls,          \* the play_sample calls of the count-in of this run
    trace,                  \* the steady-state ticks of this run, in order
    run,                    \* how this run was started
    fresh,                  \* the first run of the behaviour, once it is over
    \* the exploration
    limits                  \* the bounds on emitted and ops of this specification

metronome_vars ==
    << running, thread, bpm, beats_per_bar, subdivisions, count_in_enabled,
       count_in_bars, tempo_change_mode, tempo_change_step,
       tempo_change_interval, timer_duration, swing_enabled,
       current_section_index, current_section, sections, start_time,
       next_tick_time >>

\* What the control context alone writes: the observer slot, the sound
\* settings, the tap times, the setlist and its walk.  (limits is never
\* written.)
settings_vars ==
    << on_beat, sound_manager, tap_times, current_setlist, setlist_active,
       timers, walk, started, limits >>

\* What the handlers of the setlist walk write.
walk_vars == << setlist_active, timers, walk, started >>

\* The four locals of play() that hold the sample names and volumes in use.
sample_locals ==
    << accented_sample_name, regular_sample_name, accented_volume,
       regular_volume >>

thread_vars == << pc, tick_count, bar_count, countin_left, sample_locals >>

control_vars == << ctl_pc, song, raised, ops, last_call >>

run_vars == << countin_emitted, countin_calls, trace, run, fresh >>

history_vars ==
    << exit_reason, emitted, notified, since_clear, delay_sum, stopped,
       run_vars >>

vars ==
    << metronome_vars, settings_vars, thread_vars, control_vars, now,
       history_vars >>

\* The positions of play() at which the playback thread is still executing
\* ("observer": inside a call of on_beat that has not returned).
AlivePcs == {"start", "countin", "loop", "tick", "observer"}

LoopAlive == pc \in AlivePcs

\* The observers: MetronomeUI._on_beat, which hands the flash to the Tk event
\* queue (root.after) and returns, and a callable that does not return.
UiOnBeat == "_on_beat"
BlockingOnBeat == "blocking"

\* SoundManager.__init__: the four settings play() reads.
DefaultSoundSettings ==
    [accented_sample_var |-> DEFAULT_ACCENTED_SAMPLE,
     regular_sample_var |-> DEFAULT_REGULAR_SAMPLE,
     accented_volume |-> DEFAULT_ACCENTED_VOLUME,
     regular_volume |-> DEFAULT_REGULAR_VOLUME]

\* A local of play() that is not bound yet: a name, a volume.
UnboundName == "unbound"
UnboundVolume == 0 - 1

\* No run yet.
NoRun ==
    [n |-> 0, via |-> "none", after_stop |-> FALSE, sections |-> << >>,
     disturbed |-> FALSE]

\* SoundManager.__init__, Metronome.__init__, and MetronomeUI.__init__ (which
\* registers _on_beat) with no song loaded.
Constructed ==
    /\ running = FALSE
    /\ thread = None
    /\ bpm = DEFAULT_BPM
    /\ beats_per_bar = DEFAULT_BEATS_PER_BAR
    /\ subdivisions = DEFAULT_SUBDIVISIONS
    /\ count_in_enabled = TRUE
    /\ count_in_bars = DEFAULT_COUNT_IN_BARS
    /\ tempo_change_mode = "None"
    /\ tempo_change_step = Num(DEFAULT_TEMPO_CHANGE_STEP)
    /\ tempo_change_interval = Num(DEFAULT_TEMPO_CHANGE_INTERVAL)
    /\ timer_duration = DEFAULT_TIMER_DURATION
    /\ swing_enabled = FALSE
    /\ current_section_index = 0
    /\ current_section = None
    /\ sections = << >>
    /\ start_time = 0
    /\ next_tick_time = 0
    /\ on_beat = Some(UiOnBeat)
    /\ sound_manager = DefaultSoundSettings
    /\ pc = "none"
    /\ tick_count = 0
    /\ bar_count = 0
    /\ countin_left = 0
    /\ accented_sample_name = UnboundName
    /\ regular_sample_name = UnboundName
    /\ accented_volume = UnboundVolume
    /\ regular_volume = UnboundVolume
    /\ ctl_pc = "ready"
    /\ song = << >>
    /\ raised = "none"
    /\ ops = 0
    /\ last_call = "none"
    /\ tap_times = << >>
    /\ current_setlist = None
    /\ setlist_active = FALSE
    /\ timers = {}
    /\ walk = [n |-> 0, cancelled |-> {}]
    /\ started = << >>
    /\ now = 0
    /\ exit_reason = "none"
    /\ emitted = 0
    /\ notified = 0
    /\ since_clear = 0
    /\ delay_sum = 0
    /\ stopped = FALSE
    /\ countin_emitted = 0
    /\ countin_calls = << >>
    /\ trace = << >>
    /\ run = NoRun
    /\ fresh = [run |-> NoRun, trace |-> << >>]

Init ==
    /\ Constructed
    /\ limits = [emitted |-> MaxEmitted, ops |-> MaxOps]

\* ------------------------------------------------------------ Tempo Controller
\* The mutant of the tempo change: it is applied at every bar.
handle_tempo_change_every_bar(bar) ==
    IF tempo_change_mode = "Speed Up"
    THEN [raises |-> FALSE,
          bpm |-> Min(MAX_BPM, bpm + DEFAULT_TEMPO_CHANGE_STEP)]
    ELSE IF tempo_change_mode = "Slow Down"
    THEN [raises |-> FALSE,
          bpm |-> Max(MIN_BPM, bpm - DEFAULT_TEMPO_CHANGE_STEP)]
    ELSE [raises |-> FALSE, bpm |-> bpm]

\* Metronome._handle_tempo_change(bar_count): the bpm it sets, or raises
\* (the ZeroDivisionError of bar_count % interval).  int() raises ValueError
\* for text that is no number, and then both values are the defaults.
handle_tempo_change(bar) ==
    LET bad == ~tempo_change_step.numeric \/ ~tempo_change_interval.numeric
        step == IF bad THEN DEFAULT_TEMPO_CHANGE_STEP
                ELSE tempo_change_step.value
        interval == IF bad THEN DEFAULT_TEMPO_CHANGE_INTERVAL
                    ELSE tempo_change_interval.value
    IN  IF tempo_change_mode \in {"Speed Up", "Slow Down"} /\ interval = 0
        THEN [raises |-> TRUE, bpm |-> bpm]
        ELSE IF tempo_change_mode = "Speed Up" /\ PyMod(bar, interval) = 0
        THEN [raises |-> FALSE, bpm |-> Min(MAX_BPM, bpm + step)]
        ELSE IF tempo_change_mode = "Slow Down" /\ PyMod(bar, interval) = 0
        THEN [raises |-> FALSE, bpm |-> Max(MIN_BPM, bpm - step)]
        ELSE [raises |-> FALSE, bpm |-> bpm]

\* ------------------------------------------------------------ Beat Clock
\* The mutant of the delay: swing applies with any number of subdivisions.
delay_for_swing_any_subdivisions(swing, subdiv, tick_in_beat, bpm_) ==
    IF swing
    THEN PyFloorDiv(PyFloorDiv(60 * TimeUnitsPerSecond, bpm_)
                    * (IF tick_in_beat = 0 THEN 2 ELSE 1), 3)
    ELSE PyFloorDiv(60 * TimeUnitsPerSecond, bpm_ * subdiv)

\* Lines 205-207: the delay in time units as a function of what
\* _calculate_delay reads, for bpm_ * subdiv # 0.
delay_for(swing, subdiv, tick_in_beat, bpm_) ==
    IF swing /\ subdiv = 2
    THEN PyFloorDiv(PyFloorDiv(60 * TimeUnitsPerSecond, bpm_)
                    * (IF tick_in_beat = 0 THEN 2 ELSE 1), 3)
    ELSE PyFloorDiv(60 * TimeUnitsPerSecond, bpm_ * subdiv)

\* Metronome._calculate_delay(tick_in_beat), for bpm_ * subdivisions # 0.
calculate_delay(tick_in_beat, bpm_) ==
    delay_for(swing_enabled, subdivisions, tick_in_beat, bpm_)

\* Lines 205-207 as Python computes them: the delay in seconds, a float, for
\* bpm_ > 0 and subdiv > 0.
delay_seconds(swing, subdiv, tick_in_beat, bpm_) ==
    IF swing /\ subdiv = 2
    THEN F64Mul(F64DivInt(60, bpm_),
                IF tick_in_beat = 0 THEN F64DivInt(2, 3) ELSE F64DivInt(1, 3))
    ELSE F64DivInt(60, bpm_ * subdiv)

\* The mutant of the scheduling rule: the deadline is derived from the clock.
advance_next_tick_time_from_now(deadline, delay, clock) == clock + delay

\* next_tick_time += delay.
advance_next_tick_time(deadline, delay, clock) == deadline + delay

\* The mutant of the sleep: a missed deadline is slept for as well, for the
\* time by which it was missed.
after_sleep_when_late_too(deadline, clock) ==
    IF deadline - clock > 0 THEN deadline ELSE clock + (clock - deadline)

\* sleep_time = next_tick_time - time.time(); if sleep_time > 0: sleep.
\* The clock after the (possible) sleep.
after_sleep(deadline, clock) ==
    IF deadline - clock > 0 THEN deadline ELSE clock

\* ------------------------------------------------------------ Playback Loop
\* sound_manager.play_sample(...) called from play(): one more dispatched
\* sample, counted apart once stop() has cleared the running flag.
PlaySample ==
    /\ emitted' = emitted + 1
    /\ since_clear' = IF running THEN since_clear ELSE since_clear + 1

\* An exception leaves play(): the thread ends, nothing else is written.
Crashed ==
    /\ pc' = "crashed"
    /\ exit_reason' = "exception"

\* Lines 117-120 and 150-153: the four locals are read from the sound manager.
TakeSnapshot ==
    /\ accented_sample_name' = sound_manager.accented_sample_var
    /\ regular_sample_name' = sound_manager.regular_sample_var
    /\ accented_volume' = sound_manager.accented_volume
    /\ regular_volume' = sound_manager.regular_volume

\* A call the loop makes to a collaborator: the function and its arguments.
Call(fn, args) == [fn |-> fn, args |-> args]

\* The mutant of the count-in sample: the accent sample of the sound settings.
count_in_call_accented ==
    Call("play_sample",
         << sound_manager.accented_sample_var, sound_manager.accented_volume >>)

\* Lines 106-109: the play_sample call of a count-in iteration, with the
\* count-in sample and the count-in volume of the sound manager (whose scale
\* stays where SoundManager.__init__ put it).
count_in_call ==
    Call("play_sample", << DEFAULT_COUNTIN_SAMPLE, DEFAULT_COUNTIN_VOLUME >>)

\* The mutant of the count-in length: one sample per subdivision.
count_in_ticks_per_subdivision == beats_per_bar * count_in_bars * subdivisions

\* Line 105: the length of the count-in.
count_in_ticks == beats_per_bar * count_in_bars

\* play(), lines 100-104: the locals, and the entry of the count-in phase.
\* range(n) is evaluated once, and is empty for n <= 0; with no count-in the
\* thread goes on to the snapshot of lines 117-120.
PlayBegin ==
    /\ pc = "start"
    /\ tick_count' = 0
    /\ bar_count' = 0
    /\ LET n == count_in_ticks
       IN  IF count_in_enabled /\ n > 0
           THEN pc' = "countin" /\ countin_left' = n /\ UNCHANGED sample_locals
           ELSE pc' = "loop" /\ countin_left' = 0 /\ TakeSnapshot
    /\ UNCHANGED << metronome_vars, settings_vars, control_vars, now,
                    history_vars >>

\* One iteration of the count-in for loop: the sample, the deadline, the sleep.
\* 60 / bpm raises ZeroDivisionError for bpm = 0.  j is the time the
\* iteration took before it read the clock.  After the last iteration the
\* thread goes on to the snapshot of lines 117-120.
CountInTick(j) ==
    /\ pc = "countin"
    /\ emitted < limits.emitted
    /\ PlaySample
    /\ countin_emitted' = countin_emitted + 1
    /\ countin_calls' = Append(countin_calls, count_in_call)
    /\ IF bpm = 0
       THEN /\ Crashed
            /\ now' = now + j
            /\ UNCHANGED << next_tick_time, delay_sum, countin_left,
                            sample_locals >>
       ELSE LET delay == PyFloorDiv(60 * TimeUnitsPerSecond, bpm)
                deadline == advance_next_tick_time(next_tick_time, delay, now + j)
            IN  /\ next_tick_time' = deadline
                /\ delay_sum' = delay_sum + delay
                /\ now' = after_sleep(deadline, now + j)
                /\ countin_left' = countin_left - 1
                /\ IF countin_left = 1
                   THEN pc' = "loop" /\ TakeSnapshot
                   ELSE pc' = "countin" /\ UNCHANGED sample_locals
                /\ UNCHANGED exit_reason
    /\ UNCHANGED << running, thread, bpm, beats_per_bar, subdivisions,
                    count_in_enabled, count_in_bars, tempo_change_mode,
                    tempo_change_step, tempo_change_interval, timer_duration,
                    swing_enabled, current_section_index, current_section,
                    sections, start_time, tick_count, bar_count,
                    settings_vars, control_vars, notified, stopped, trace,
                    run, fresh >>

\* The mutant of the section test: one bar more than the section has.
section_exhausted_one_bar_late ==
    current_section # None /\ bar_count > current_section[1].bars

\* Line 130: the current section has had its bars.
section_exhausted ==
    current_section # None /\ bar_count >= current_section[1].bars

\* Line 131: the index of the section after section i.
next_section_index(i) == i + 1

\* The mutant of the exit on exhaustion: the loop is left, the flag stays set.
SequenceComplete_keeps_flag ==
    /\ pc' = "exited"
    /\ exit_reason' = "exhausted"
    /\ UNCHANGED << running, current_section, bpm, beats_per_bar, subdivisions,
                    swing_enabled, bar_count, tick_count >>

\* Lines 132-134: no section is left; the flag is cleared and the loop left.
SequenceComplete ==
    /\ running' = FALSE
    /\ pc' = "exited"
    /\ exit_reason' = "exhausted"
    /\ UNCHANGED << current_section, bpm, beats_per_bar, subdivisions,
                    swing_enabled, bar_count, tick_count >>

\* The mutant of the timer check: the run ends only after the duration.
timer_expired_strictly ==
    timer_duration > 0 /\ (now - start_time) > timer_duration

\* Lines 124-125: the timer is set and the run has lasted its duration.
timer_expired ==
    timer_duration > 0 /\ (now - start_time) >= timer_duration

\* The mutant of the section advance: the tick counter starts again with the
\* bar.
tick_count_after_advance_reset ==
    tick_count % (beats_per_bar * subdivisions)

\* Lines 136-141: the section advance sets bar_count to 0 and leaves
\* tick_count as it is.
tick_count_after_advance == tick_count

\* The top of the while loop, lines 122-141: the running test, the timer
\* check and the section advance.
LoopTop ==
    /\ pc = "loop"
    /\ IF ~running
       THEN /\ pc' = "exited"
            /\ exit_reason' = "stop"
            /\ UNCHANGED << running, current_section_index, current_section,
                            bpm, beats_per_bar, subdivisions, swing_enabled,
                            bar_count, tick_count >>
       ELSE IF timer_expired
       THEN /\ running' = FALSE
            /\ pc' = "exited"
            /\ exit_reason' = "timer"
            /\ UNCHANGED << current_section_index, current_section, bpm,
                            beats_per_bar, subdivisions, swing_enabled,
                            bar_count, tick_count >>
       ELSE IF section_exhausted
       THEN /\ current_section_index' = next_section_index(current_section_index)
            /\ IF current_section_index' >= Len(sections)
               THEN SequenceComplete
               ELSE LET next == sections[current_section_index' + 1]
                    IN  /\ current_section' = Some(next)
                        /\ bpm' = next.bpm
                        /\ beats_per_bar' = next.beats_per_bar
                        /\ subdivisions' = next.subdivisions
                        /\ swing_enabled' = next.swing_enabled
                        /\ bar_count' = 0
                        /\ tick_count' = tick_count_after_advance
                        /\ pc' = "tick"
                        /\ UNCHANGED << running, exit_reason >>
       ELSE /\ pc' = "tick"
            /\ UNCHANGED << running, exit_reason, current_section_index,
                            current_section, bpm, beats_per_bar, subdivisions,
                            swing_enabled, bar_count, tick_count >>
    /\ UNCHANGED << thread, count_in_enabled, count_in_bars, tempo_change_mode,
                    tempo_change_step, tempo_change_interval, timer_duration,
                    sections, start_time, next_tick_time, settings_vars,
                    countin_left, sample_locals, control_vars, now,
                    emitted, notified, since_clear, delay_sum, stopped,
                    run_vars >>

\* The mutant of the accent test: every tick of the first beat of a measure.
is_accented_tick_whole_beat(tick_in_beat, current_beat) ==
    PyMod(current_beat, beats_per_bar) = 0

\* Line 146: the tick is the first of a measure.  Python's `and` does not
\* evaluate current_beat % beats_per_bar when tick_in_beat # 0.
is_accented_tick(tick_in_beat, current_beat) ==
    tick_in_beat = 0 /\ PyMod(current_beat, beats_per_bar) = 0

\* What the body of one while iteration, lines 143-175, does in the current
\* state: how far it gets before an exception (stage), and what it computes.
\*   stage "beat"   (tick_count - 1) // subdivisions raised
\*   stage "accent" current_beat % beats_per_bar raised
\*   stage "bar"    tick_count % (beats_per_bar * subdivisions) raised
\*   stage "tempo"  _handle_tempo_change raised
\*   stage "delay"  _calculate_delay raised
\*   stage "done"   the iteration completed
TickResult ==
    LET tc == tick_count + 1
        r0 == [stage |-> "beat", is_accented |-> FALSE, bar_done |-> FALSE,
               bpm |-> bpm, delay |-> 0]
    IN  IF subdivisions = 0 THEN r0
        ELSE
        LET current_beat == PyFloorDiv(tc - 1, subdivisions)
            tick_in_beat == PyMod(tc - 1, subdivisions)
        IN  IF tick_in_beat = 0 /\ beats_per_bar = 0
            THEN [r0 EXCEPT !.stage = "accent"]
            ELSE
            LET is_accented == is_accented_tick(tick_in_beat, current_beat)
                r1 == [r0 EXCEPT !.is_accented = is_accented]
            IN  IF beats_per_bar * subdivisions = 0
                THEN [r1 EXCEPT !.stage = "bar"]
                ELSE
                LET bar_done == PyMod(tc, beats_per_bar * subdivisions) = 0
                    change == IF bar_done
                              THEN handle_tempo_change(bar_count + 1)
                              ELSE [raises |-> FALSE, bpm |-> bpm]
                    r2 == [r1 EXCEPT !.bar_done = bar_done, !.bpm = change.bpm]
                IN  IF change.raises THEN [r2 EXCEPT !.stage = "tempo"]
                    ELSE IF change.bpm = 0 THEN [r2 EXCEPT !.stage = "delay"]
                    ELSE [r2 EXCEPT !.stage = "done",
                                    !.delay = calculate_delay(tick_in_beat,
                                                              change.bpm)]

\* The mutant of the snapshot rule: the locals are read again on every tick.
snapshot_always(is_accented) == TRUE

\* Line 149: the locals are read again on this tick.
snapshot_due(is_accented) == is_accented

\* The mutant of the sample choice: the accent sample at the regular volume.
sample_call_regular_volume(is_accented, an, rn, av, rv) ==
    IF is_accented
    THEN Call("play_sample", << an, rv >>)
    ELSE Call("play_sample", << rn, rv >>)

\* Lines 156-159: the play_sample call of a tick, from the four locals.
sample_call(is_accented, an, rn, av, rv) ==
    IF is_accented
    THEN Call("play_sample", << an, av >>)
    ELSE Call("play_sample", << rn, rv >>)

\* Lines 162-163: the on_beat call of a tick, if an observer is registered.
observer_calls(is_accented) ==
    IF on_beat # None THEN << Call("on_beat", << is_accented >>) >> ELSE << >>

\* The mutant of the call order: the observer, then the sample.
tick_calls_observer_first(play, observer) == observer \o << play >>

\* Lines 155-163 in order: the sample, then the observer.
tick_calls(play, observer) == << play >> \o observer

\* Line 163 calls the observer in the playback thread: the loop goes on when
\* the call returns.  _on_beat returns; the blocking callable does not.
on_beat_returns == on_beat # Some(BlockingOnBeat)

\* The record of one steady-state tick in the history of the run: what the
\* loop computed and called, and the sound settings and the observer slot as
\* they stood when it did.
TickRecord(is_accented, bars, calls) ==
    [tick_count |-> tick_count + 1,
     bar_count |-> bars,
     bar_done |-> bars # bar_count,
     section |-> current_section_index,
     is_accented |-> is_accented,
     calls |-> calls,
     settings |-> sound_manager,
     observer |-> on_beat]

\* Lines 149-163 of one iteration: the snapshot on an accented tick, the
\* sample and the observer.
Dispatch(is_accented, bars) ==
    /\ PlaySample
    /\ IF snapshot_due(is_accented)
       THEN TakeSnapshot
       ELSE UNCHANGED sample_locals
    /\ notified' = notified + Len(observer_calls(is_accented))
    /\ trace' = Append(trace,
                       TickRecord(is_accented, bars,
                                  tick_calls(sample_call(is_accented,
                                                         accented_sample_name',
                                                         regular_sample_name',
                                                         accented_volume',
                                                         regular_volume'),
                                             observer_calls(is_accented))))

\* One iteration of the while loop after its checks: the tick identity, the
\* sample, the observer, the bar counter and tempo change, the deadline and
\* the sleep.  j is the time the iteration took before it read the clock.
Tick(j) ==
    /\ pc = "tick"
    /\ emitted < limits.emitted
    /\ LET r == TickResult
           dispatched == r.stage \notin {"beat", "accent"}
           returned == on_beat_returns
       IN  /\ tick_count' = tick_count + 1
           /\ IF dispatched /\ ~returned
              THEN /\ Dispatch(r.is_accented, bar_count)
                   /\ pc' = "observer"
                   /\ now' = now + j
                   /\ UNCHANGED << bar_count, bpm, next_tick_time, delay_sum,
                                   exit_reason >>
              ELSE /\ bar_count' = IF r.bar_done THEN bar_count + 1
                                   ELSE bar_count
                   /\ IF dispatched
                      THEN Dispatch(r.is_accented, bar_count')
                      ELSE UNCHANGED << emitted, since_clear, notified,
                                        sample_locals, trace >>
                   /\ bpm' = r.bpm
                   /\ IF r.stage = "done"
                      THEN LET deadline ==
                                   advance_next_tick_time(next_tick_time,
                                                          r.delay, now + j)
                           IN  /\ next_tick_time' = deadline
                               /\ delay_sum' = delay_sum + r.delay
                               /\ now' = after_sleep(deadline, now + j)
                               /\ pc' = "loop"
                               /\ UNCHANGED exit_reason
                      ELSE /\ Crashed
                           /\ now' = now + j
                           /\ UNCHANGED << next_tick_time, delay_sum >>
    /\ UNCHANGED << running, thread, beats_per_bar, subdivisions,
                    count_in_enabled, count_in_bars, tempo_change_mode,
                    tempo_change_step, tempo_change_interval, timer_duration,
                    swing_enabled, current_section_index, current_section,
                    sections, start_time, settings_vars, countin_left,
                    control_vars, stopped, countin_emitted, countin_calls,
                    run, fresh >>

\* ------------------------------------------------------------ Run Controller
\* The mutant of the test of start(): the flag is not looked at.
start_finds_running_never == FALSE

\* Line 59: start() finds the flag set.
start_finds_running == running

\* Metronome.start(): a no-op while the flag is set; otherwise the flag, the
\* two timestamps and a new thread, which has not yet entered play().
\* The caller has set last_call and sections before.  The history of the
\* run begins; a call while the flag is set is noted in the run it found.
start ==
    IF ~start_finds_running
    THEN /\ running' = TRUE
         /\ start_time' = now
         /\ next_tick_time' = now
         /\ thread' = Some("Thread")
         /\ pc' = "start"
         /\ tick_count' = 0
         /\ bar_count' = 0
         /\ countin_left' = 0
         /\ accented_sample_name' = UnboundName
         /\ regular_sample_name' = UnboundName
         /\ accented_volume' = UnboundVolume
         /\ regular_volume' = UnboundVolume
         /\ exit_reason' = "none"
         /\ emitted' = 0
         /\ notified' = 0
         /\ since_clear' = 0
         /\ delay_sum' = 0
         /\ stopped' = FALSE
         /\ countin_emitted' = 0
         /\ countin_calls' = << >>
         /\ trace' = << >>
         /\ run' = [n |-> run.n + 1, via |-> last_call',
                    after_stop |-> stopped, sections |-> sections',
                    disturbed |-> FALSE]
         /\ fresh' = IF run.n = 1 THEN [run |-> run, trace |-> trace]
                     ELSE fresh
    ELSE /\ run' = [run EXCEPT !.disturbed = TRUE]
         /\ UNCHANGED << running, start_time, next_tick_time, thread,
                         thread_vars, exit_reason, emitted, notified,
                         since_clear, delay_sum, stopped, countin_emitted,
                         countin_calls,
                         trace, fresh >>

\* The mutant of thread.join(): it returns at once.
join_returns_at_once == TRUE

\* thread.join() returns when play() has returned or raised.
join_returns == ~LoopAlive

\* MetronomeUI._stop_metronome up to the join: the setlist flag is cleared
\* (the walks whose callbacks are pending while it is set are the walks this
\* stop cancels), then Metronome.stop(), line 68: the running flag is
\* cleared; the caller then blocks in join().
StopClear ==
    /\ ctl_pc = "ready"
    /\ ops < limits.ops
    /\ ops' = ops + 1
    /\ last_call' = "stop"
    /\ setlist_active' = FALSE
    /\ walk' = IF setlist_active
               THEN [walk EXCEPT !.cancelled = @ \cup {t.walk : t \in timers}]
               ELSE walk
    /\ running' = FALSE
    /\ ctl_pc' = "joining"
    /\ raised' = "none"
    /\ UNCHANGED << thread, bpm, beats_per_bar, subdivisions, count_in_enabled,
                    count_in_bars, tempo_change_mode, tempo_change_step,
                    tempo_change_interval, timer_duration, swing_enabled,
                    current_section_index, current_section, sections,
                    start_time, next_tick_time, on_beat, sound_manager,
                    tap_times, current_setlist, timers, started, limits,
                    thread_vars, song, now, history_vars >>

\* Metronome.stop(), lines 69-74: join() returns (there is none to wait for
\* when thread is None), and the sequence state is reset.
StopJoin ==
    /\ ctl_pc = "joining"
    /\ thread = None \/ join_returns
    /\ thread' = None
    /\ current_section_index' = 0
    /\ current_section' = None
    /\ sections' = << >>
    /\ ctl_pc' = "ready"
    /\ stopped' = TRUE
    /\ UNCHANGED << running, bpm, beats_per_bar, subdivisions, count_in_enabled,
                    count_in_bars, tempo_change_mode, tempo_change_step,
                    tempo_change_interval, timer_duration, swing_enabled,
                    start_time, next_tick_time, settings_vars, thread_vars,
                    song, raised, ops, last_call, now, exit_reason, emitted,
                    notified, since_clear, delay_sum, run_vars >>

\* The mutant of start_song_flow: no test for the empty list, so that
\* sections[0] raises IndexError after the first two assignments.
start_song_flow_unguarded(secs) ==
    IF secs = << >>
    THEN /\ sections' = secs
         /\ current_section_index' = 0
         /\ raised' = "IndexError"
         /\ UNCHANGED << running, thread, bpm, beats_per_bar, subdivisions,
                         count_in_enabled, count_in_bars, tempo_change_mode,
                         tempo_change_step, tempo_change_interval,
                         timer_duration, swing_enabled, current_section,
                         start_time, next_tick_time, thread_vars,
                         history_vars >>
    ELSE /\ sections' = secs
         /\ current_section_index' = 0
         /\ current_section' = Some(secs[1])
         /\ bpm' = secs[1].bpm
         /\ beats_per_bar' = secs[1].beats_per_bar
         /\ subdivisions' = secs[1].subdivisions
         /\ swing_enabled' = secs[1].swing_enabled
         /\ raised' = "none"
         /\ start
         /\ UNCHANGED << count_in_enabled, count_in_bars, tempo_change_mode,
                         tempo_change_step, tempo_change_interval,
                         timer_duration >>

\* The mutant of start_song_flow: the tempo of section 0 is clamped in the
\* section itself before it is copied.
start_song_flow_clamps_section(secs) ==
    IF secs = << >>
    THEN /\ raised' = "none"
         /\ UNCHANGED << metronome_vars, thread_vars, history_vars >>
    ELSE LET clamped == Max(MIN_BPM, Min(MAX_BPM, secs[1].bpm))
             first == [secs[1] EXCEPT !.bpm = clamped]
         IN  /\ sections' = [secs EXCEPT ![1] = first]
             /\ current_section_index' = 0
             /\ current_section' = Some(first)
             /\ bpm' = first.bpm
             /\ beats_per_bar' = first.beats_per_bar
             /\ subdivisions' = first.subdivisions
             /\ swing_enabled' = first.swing_enabled
             /\ raised' = "none"
             /\ start
             /\ UNCHANGED << count_in_enabled, count_in_bars,
                             tempo_change_mode, tempo_change_step,
                             tempo_change_interval, timer_duration >>

\* The mutant of start_song_flow: the meter and tempo of section 0 are not
\* copied to the settings.
start_song_flow_keeps_meter(secs) ==
    IF secs = << >>
    THEN /\ raised' = "none"
         /\ UNCHANGED << metronome_vars, thread_vars, history_vars >>
    ELSE /\ sections' = secs
         /\ current_section_index' = 0
         /\ current_section' = Some(secs[1])
         /\ raised' = "none"
         /\ start
         /\ UNCHANGED << bpm, beats_per_bar, subdivisions, swing_enabled,
                         count_in_enabled, count_in_bars, tempo_change_mode,
                         tempo_change_step, tempo_change_interval,
                         timer_duration >>

\* Metronome.start_song_flow(sections): returns at once for an empty list;
\* otherwise the sequence state, the settings of section 0, and start().
start_song_flow(secs) ==
    IF secs = << >>
    THEN /\ raised' = "none"
         /\ UNCHANGED << metronome_vars, thread_vars, history_vars >>
    ELSE /\ sections' = secs
         /\ current_section_index' = 0
         /\ current_section' = Some(secs[1])
         /\ bpm' = secs[1].bpm
         /\ beats_per_bar' = secs[1].beats_per_bar
         /\ subdivisions' = secs[1].subdivisions
         /\ swing_enabled' = secs[1].swing_enabled
         /\ raised' = "none"
         /\ start
         /\ UNCHANGED << count_in_enabled, count_in_bars, tempo_change_mode,
                         tempo_change_step, tempo_change_interval,
                         timer_duration >>

\* ------------------------------------------------------------ control context
\* play_next_song of MetronomeUI._play_setlist: start_song_flow with the
\* sections of the song held.
StartSongFlow ==
    /\ ctl_pc = "ready"
    /\ ops < limits.ops
    /\ ops' = ops + 1
    /\ last_call' = "start_song_flow"
    /\ start_song_flow(song)
    /\ UNCHANGED << settings_vars, ctl_pc, song, now >>

\* Song.load for a song file: the song held is replaced unless a section
\* fails to construct, and then the ValueError reaches the caller.
LoadSong(file) ==
    /\ ctl_pc = "ready"
    /\ ops < limits.ops
    /\ ops' = ops + 1
    /\ last_call' = "load_song"
    /\ LET loaded == Song_from_dict(file)
       IN  IF loaded.raises
           THEN raised' = "ValueError" /\ UNCHANGED song
           ELSE raised' = "none" /\ song' = loaded.sections
    /\ UNCHANGED << metronome_vars, settings_vars, thread_vars, ctl_pc, now,
                    history_vars >>

\* The texts of the entry fields MetronomeUI._start_metronome reads.
Entries(timer, beats, subdiv, step, interval, bars) ==
    [timer |-> timer, beats |-> beats, subdiv |-> subdiv, step |-> step,
     interval |-> interval, count_in_bars |-> bars]

StartEntries ==
    { Entries(Num(0), Num(2), Num(1), Num(5), Num(1), Num(1)),
      Entries(Num(TimeUnitsPerSecond), Num(1), Num(2), Num(130), Num(2), Num(1)),
      Entries(Num(0), Num(0), Num(2), Num(5), Num(4), Num(2)),
      Entries(Num(0), Num(2), Num(0), Num(5), Num(4), Num(1)),
      Entries(Num(0), Num(1), Num(1), Num(-130), Num(1), Num(1)),
      Entries(Text, Num(1), Num(1), Num(5), Num(0), Text) }

\* MetronomeUI._start_metronome: float() of the timer text, 0 on ValueError;
\* then the five int() assignments in order, abandoned at the first
\* ValueError; then start().
UiStartMetronome(e) ==
    /\ ctl_pc = "ready"
    /\ ops < limits.ops
    /\ ops' = ops + 1
    /\ last_call' = "_start_metronome"
    /\ timer_duration' = IF e.timer.numeric THEN e.timer.value ELSE 0
    /\ LET ok1 == e.beats.numeric
           ok2 == ok1 /\ e.subdiv.numeric
           ok3 == ok2 /\ e.step.numeric
           ok4 == ok3 /\ e.interval.numeric
           ok5 == ok4 /\ e.count_in_bars.numeric
       IN  /\ beats_per_bar' = IF ok1 THEN e.beats.value ELSE beats_per_bar
           /\ subdivisions' = IF ok2 THEN e.subdiv.value ELSE subdivisions
           /\ tempo_change_step' = IF ok3 THEN Num(e.step.value)
                                   ELSE tempo_change_step
           /\ tempo_change_interval' = IF ok4 THEN Num(e.interval.value)
                                       ELSE tempo_change_interval
           /\ count_in_bars' = IF ok5 THEN e.count_in_bars.value
                               ELSE count_in_bars
    /\ raised' = "none"
    /\ UNCHANGED << bpm, count_in_enabled, tempo_change_mode, swing_enabled,
                    current_section_index, current_section, sections,
                    settings_vars, ctl_pc, song, now >>
    /\ start

\* The BPM slider (ttk.Scale from MIN_BPM to MAX_BPM bound to metronome.bpm).
SliderValues == {MIN_BPM + 2, MAX_BPM - 2}

SetBpm(v) ==
    /\ ctl_pc = "ready"
    /\ ops < limits.ops
    /\ ops' = ops + 1
    /\ last_call' = "bpm.set"
    /\ bpm' = v
    /\ raised' = "none"
    /\ UNCHANGED << running, thread, beats_per_bar, subdivisions,
                    count_in_enabled, count_in_bars, tempo_change_mode,
                    tempo_change_step, tempo_change_interval, timer_duration,
                    swing_enabled, current_section_index, current_section,
                    sections, start_time, next_tick_time, settings_vars,
                    thread_vars, ctl_pc, song, now, history_vars >>

\* The tempo-change option menu bound to metronome.tempo_change_mode.
SetTempoChangeMode(m) ==
    /\ ctl_pc = "ready"
    /\ ops < limits.ops
    /\ ops' = ops + 1
    /\ last_call' = "tempo_change_mode.set"
    /\ tempo_change_mode' = m
    /\ raised' = "none"
    /\ UNCHANGED << running, thread, bpm, beats_per_bar, subdivisions,
                    count_in_enabled, count_in_bars, tempo_change_step,
                    tempo_change_interval, timer_duration, swing_enabled,
                    current_section_index, current_section, sections,
                    start_time, next_tick_time, settings_vars, thread_vars,
                    ctl_pc, song, now, history_vars >>

\* The swing check button: the bound variable flips, then
\* MetronomeUI._on_swing_toggle sets subdivisions to 2 when swing is on.
OnSwingToggle ==
    /\ ctl_pc = "ready"
    /\ ops < limits.ops
    /\ ops' = ops + 1
    /\ last_call' = "_on_swing_toggle"
    /\ swing_enabled' = ~swing_enabled
    /\ subdivisions' = IF ~swing_enabled THEN 2 ELSE subdivisions
    /\ raised' = "none"
    /\ UNCHANGED << running, thread, bpm, beats_per_bar, count_in_enabled,
                    count_in_bars, tempo_change_mode, tempo_change_step,
                    tempo_change_interval, timer_duration,
                    current_section_index, current_section, sections,
                    start_time, next_tick_time, settings_vars, thread_vars,
                    ctl_pc, song, now, history_vars >>

\* metronome.count_in_enabled.set(b): the count-in switch of the
\* configuration surface.
SetCountInEnabled(b) ==
    /\ ctl_pc = "ready"
    /\ ops < limits.ops
    /\ ops' = ops + 1
    /\ last_call' = "count_in_enabled.set"
    /\ count_in_enabled' = b
    /\ raised' = "none"
    /\ UNCHANGED << running, thread, bpm, beats_per_bar, subdivisions,
                    count_in_bars, tempo_change_mode, tempo_change_step,
                    tempo_change_interval, timer_duration, swing_enabled,
                    current_section_index, current_section, sections,
                    start_time, next_tick_time, settings_vars, thread_vars,
                    ctl_pc, song, now, history_vars >>

\* A caller assigns the public fields tempo_change_step and
\* tempo_change_interval, which _handle_tempo_change passes through int().
TempoChangeAssignments ==
    { << Text, Num(1) >>, << Num(5), Num(-1) >> }

AssignTempoChange(a) ==
    /\ ctl_pc = "ready"
    /\ ops < limits.ops
    /\ ops' = ops + 1
    /\ last_call' = "tempo_change_step="
    /\ tempo_change_step' = a[1]
    /\ tempo_change_interval' = a[2]
    /\ raised' = "none"
    /\ UNCHANGED << running, thread, bpm, beats_per_bar, subdivisions,
                    count_in_enabled, count_in_bars, tempo_change_mode,
                    timer_duration, swing_enabled, current_section_index,
                    current_section, sections, start_time, next_tick_time,
                    settings_vars, thread_vars, ctl_pc, song, now,
                    history_vars >>

\* The sample menus of the settings tab (ttk.OptionMenu bound to
\* accented_sample_var and regular_sample_var), over the samples available.
SampleNames == {DEFAULT_ACCENTED_SAMPLE, DEFAULT_REGULAR_SAMPLE}

SetAccentedSample(name) ==
    /\ ctl_pc = "ready"
    /\ ops < limits.ops
    /\ ops' = ops + 1
    /\ last_call' = "accented_sample_var.set"
    /\ sound_manager' = [sound_manager EXCEPT !.accented_sample_var = name]
    /\ raised' = "none"
    /\ UNCHANGED << metronome_vars, on_beat, tap_times, current_setlist,
                    walk_vars, limits, thread_vars,
                    ctl_pc, song, now, history_vars >>

SetRegularSample(name) ==
    /\ ctl_pc = "ready"
    /\ ops < limits.ops
    /\ ops' = ops + 1
    /\ last_call' = "regular_sample_var.set"
    /\ sound_manager' = [sound_manager EXCEPT !.regular_sample_var = name]
    /\ raised' = "none"
    /\ UNCHANGED << metronome_vars, on_beat, tap_times, current_setlist,
                    walk_vars, limits, thread_vars,
                    ctl_pc, song, now, history_vars >>

\* The volume scales of the settings tab (ttk.Scale from 0.0 to 1.0 bound to
\* accented_volume and regular_volume), in hundredths.
ScaleVolumes == {(DEFAULT_ACCENTED_VOLUME) \div 2}

SetAccentedVolume(v) ==
    /\ ctl_pc = "ready"
    /\ ops < limits.ops
    /\ ops' = ops + 1
    /\ last_call' = "accented_volume.set"
    /\ sound_manager' = [sound_manager EXCEPT !.accented_volume = v]
    /\ raised' = "none"
    /\ UNCHANGED << metronome_vars, on_beat, tap_times, current_setlist,
                    walk_vars, limits, thread_vars,
                    ctl_pc, song, now, history_vars >>

SetRegularVolume(v) ==
    /\ ctl_pc = "ready"
    /\ ops < limits.ops
    /\ ops' = ops + 1
    /\ last_call' = "regular_volume.set"
    /\ sound_manager' = [sound_manager EXCEPT !.regular_volume = v]
    /\ raised' = "none"
    /\ UNCHANGED << metronome_vars, on_beat, tap_times, current_setlist,
                    walk_vars, limits, thread_vars,
                    ctl_pc, song, now, history_vars >>

\* The observer slot is a public attribute: a caller assigns None, the
\* observer of the interface, or a callable of its own.
Observers == {None, Some(UiOnBeat), Some(BlockingOnBeat)}

SetOnBeat(o) ==
    /\ ctl_pc = "ready"
    /\ ops < limits.ops
    /\ ops' = ops + 1
    /\ last_call' = "on_beat="
    /\ on_beat' = o
    /\ raised' = "none"
    /\ UNCHANGED << metronome_vars, sound_manager, tap_times, current_setlist,
                    walk_vars, limits,
                    thread_vars, ctl_pc, song, now, history_vars >>

\* round(a / b) for integers a >= 0 and b > 0: Python rounds a half to the
\* even neighbour.
PyRound(a, b) ==
    LET q == a \div b
        twice == 2 * (a % b)
    IN  IF twice > b THEN q + 1
        ELSE IF twice < b THEN q
        ELSE IF q % 2 = 0 THEN q ELSE q + 1

\* The mutant of the clamp: the upper bound is missing.
clamp_bpm_from_below(x) == Max(MIN_BPM, x)

\* ui.py line 627: max(MIN_BPM, min(MAX_BPM, bpm)).
clamp_bpm(x) == Max(MIN_BPM, Min(MAX_BPM, x))

\* Lines 621-626: the tempo of the taps, round(60 / mean interval); the
\* intervals add up to the time from the first tap to the last.
tap_bpm(times) ==
    PyRound(60 * TimeUnitsPerSecond * (Len(times) - 1),
            times[Len(times)] - times[1])

\* The times between two presses of the tap-tempo button: 0.1 s, 0.24 s,
\* 0.5 s, 2 s, and more than 2 s.
TapGaps ==
    { TimeUnitsPerSecond \div 10, (24 * TimeUnitsPerSecond) \div 100,
      TimeUnitsPerSecond \div 2, 2 * TimeUnitsPerSecond,
      2 * TimeUnitsPerSecond + 1 }

\* MetronomeUI._tap_tempo, pressed gap after the last step: the taps are
\* forgotten when the last is more than 2 s old, the tap is recorded, and
\* from the second tap on the bpm is set to the clamped tempo of the taps.
TapTempo(gap) ==
    /\ ctl_pc = "ready"
    /\ ops < limits.ops
    /\ ops' = ops + 1
    /\ last_call' = "_tap_tempo"
    /\ now' = now + gap
    /\ LET kept == IF tap_times # << >>
                      /\ now' - tap_times[Len(tap_times)]
                             > 2 * TimeUnitsPerSecond
                   THEN << >> ELSE tap_times
       IN  /\ tap_times' = Append(kept, now')
           /\ bpm' = IF Len(tap_times') >= 2
                     THEN clamp_bpm(tap_bpm(tap_times'))
                     ELSE bpm
    /\ raised' = "none"
    /\ UNCHANGED << running, thread, beats_per_bar, subdivisions,
                    count_in_enabled, count_in_bars, tempo_change_mode,
                    tempo_change_step, tempo_change_interval, timer_duration,
                    swing_enabled, current_section_index, current_section,
                    sections, start_time, next_tick_time, on_beat,
                    sound_manager, current_setlist, walk_vars, limits,
                    thread_vars, ctl_pc, song, history_vars >>

\* ------------------------------------------------------------ setlist walk
\* SetlistEntry(song, delay_after): the sections of the song, and the delay
\* in time units.
SetlistEntry(secs, delay_after) == [song |-> secs, delay_after |-> delay_after]

\* The setlists that can be loaded: one section of one bar at 10 bpm followed
\* by a delay of a second and a third of a millisecond, then the same song
\* followed by no delay.
SetlistFiles ==
    { << SetlistEntry(Song_from_dict(<< DictC >>).sections,
                      TimeUnitsPerSecond + 1),
         SetlistEntry(Song_from_dict(<< DictC >>).sections, 0) >> }

\* root.after(100, ...): a look at the running flag is pending from the
\* moment it is armed. The clock of the model moves with the sleeps of the
\* loop and the delays between songs only, and the phase of the looks against
\* it is free: a pending look can run at any moment the event loop is idle.
PollDue == 0

\* root.after(int(entry.delay_after * 1000), ...): the delay in whole
\* milliseconds, in time units.
after_delay(delay_after) ==
    ((delay_after * 1000) \div TimeUnitsPerSecond)
        * (TimeUnitsPerSecond \div 1000)

\* A callback handed to root.after by walk w, which runs fn(index) when the
\* clock reaches due; idle is what the look at the running flag found that
\* led to it.
Timer(fn, index, due, w, idle) ==
    [fn |-> fn, index |-> index, due |-> due, walk |-> w, idle |-> idle]

\* No look at the running flag led to this.
NoIdle == [at |-> 0 - 1, loop_alive |-> FALSE, delay_after |-> 0]

\* The mutant of the look at the running flag: it is never found set.
wait_finds_running_never == FALSE

\* Line 561: self.metronome.is_running.
wait_finds_running == running

\* wait_then_continue(index) of walk w, lines 558-568, with the flag set:
\* the callbacks pending after it, added to ts.
wait_then_continue(index, w, ts) ==
    IF wait_finds_running'
    THEN ts \cup { Timer("wait_then_continue", index, PollDue, w, NoIdle) }
    ELSE LET entry == current_setlist[1][index + 1]
         IN  ts \cup { Timer("play_next_song", index + 1,
                             now + after_delay(entry.delay_after), w,
                             [at |-> now, loop_alive |-> LoopAlive',
                              delay_after |-> entry.delay_after]) }

\* play_next_song(index) of walk w, lines 570-577, reached with the flag as
\* given and the pending callbacks ts: past the end of the list, or with the
\* flag cleared, the flag is cleared and nothing is started; otherwise
\* start_song_flow with the sections of the entry, then wait_then_continue.
play_next_song(index, w, ts, active, idle) ==
    IF ~active \/ index >= Len(current_setlist[1])
    THEN /\ setlist_active' = FALSE
         /\ timers' = ts
         /\ started' = started
         /\ raised' = "none"
         /\ UNCHANGED << metronome_vars, thread_vars, history_vars >>
    ELSE /\ setlist_active' = active
         /\ start_song_flow(current_setlist[1][index + 1].song)
         /\ started' = Append(started,
                              [walk |-> w, index |-> index, at |-> now,
                               idle |-> idle])
         /\ timers' = wait_then_continue(index, w, ts)

\* MetronomeUI._load_setlist with the dialog confirmed: the setlist chosen
\* becomes the current one.
LoadSetlist(entries) ==
    /\ ctl_pc = "ready"
    /\ ops < limits.ops
    /\ ops' = ops + 1
    /\ last_call' = "_load_setlist"
    /\ current_setlist' = Some(entries)
    /\ raised' = "none"
    /\ UNCHANGED << metronome_vars, on_beat, sound_manager, tap_times,
                    walk_vars, limits, thread_vars, ctl_pc, song, now,
                    history_vars >>

\* MetronomeUI._play_setlist: a warning with no setlist or an empty one;
\* otherwise the flag is set and play_next_song(0) is called.
PlaySetlist ==
    /\ ctl_pc = "ready"
    /\ ops < limits.ops
    /\ ops' = ops + 1
    /\ last_call' = "_play_setlist"
    /\ IF current_setlist = None \/ current_setlist = Some(<< >>)
       THEN /\ raised' = "none"
            /\ UNCHANGED << metronome_vars, walk_vars, thread_vars,
                            history_vars >>
       ELSE /\ walk' = [walk EXCEPT !.n = @ + 1]
            /\ play_next_song(0, walk.n + 1, timers, TRUE, NoIdle)
    /\ UNCHANGED << on_beat, sound_manager, tap_times, current_setlist, limits,
                    ctl_pc, song, now >>

\* The Tk event loop runs a callback that is due: not while a handler is
\* running (stop() blocked in join() is one). wait_then_continue returns at
\* once when the flag is cleared.
TimerFire(t) ==
    /\ t \in timers
    /\ ctl_pc = "ready"
    /\ now >= t.due
    /\ last_call' = t.fn
    /\ IF t.fn = "wait_then_continue"
       THEN /\ raised' = "none"
            /\ UNCHANGED << setlist_active, started, metronome_vars,
                            thread_vars, history_vars >>
            /\ timers' = IF setlist_active
                         THEN wait_then_continue(t.index, t.walk, timers \ {t})
                         ELSE timers \ {t}
       ELSE play_next_song(t.index, t.walk, timers \ {t}, setlist_active,
                           t.idle)
    /\ UNCHANGED << on_beat, sound_manager, tap_times, current_setlist, walk,
                    limits, ctl_pc, song, ops, now >>

\* Time passes while no playback loop is executing and no handler runs, up
\* to the next callback that is due.
TimePasses ==
    /\ timers # {}
    /\ ctl_pc = "ready"
    /\ ~LoopAlive
    /\ \A t \in timers : now < t.due
    /\ \E t \in timers :
          /\ \A u \in timers : u.due >= t.due
          /\ now' = t.due
    /\ UNCHANGED << metronome_vars, settings_vars, thread_vars, control_vars,
                    history_vars >>

\* ------------------------------------------------------------ setlist editing
\* The position a Python list index names in a list of n items: a negative
\* index counts from the end.
list_index(n, i) == IF i < 0 THEN n + i ELSE i

\* list.pop(i) for an index inside the list: the list without that item.
list_pop(l, i) ==
    LET k == list_index(Len(l), i)
    IN  SubSeq(l, 1, k) \o SubSeq(l, k + 2, Len(l))

\* The item list.pop(i) returns.
list_item(l, i) == l[list_index(Len(l), i) + 1]

\* list.insert(i, x): x before the item at i, the index cut to the ends of
\* the list.
list_insert(l, i, x) ==
    LET k == list_index(Len(l), i)
        pos == IF k < 0 THEN 0 ELSE IF k > Len(l) THEN Len(l) ELSE k
    IN  SubSeq(l, 1, pos) \o << x >> \o SubSeq(l, pos + 1, Len(l))

\* Setlist.remove_entry(index): the entries after it.
remove_entry(entries, index) ==
    IF 0 <= index /\ index < Len(entries)
    THEN list_pop(entries, index)
    ELSE entries

\* The mutant of move_entry: no lower limit on the indices.
move_entry_no_lower_limit(entries, from_index, to_index) ==
    IF from_index < Len(entries) /\ to_index < Len(entries)
       /\ list_index(Len(entries), from_index) >= 0
    THEN list_insert(list_pop(entries, from_index), to_index,
                     list_item(entries, from_index))
    ELSE entries

\* Setlist.move_entry(from_index, to_index): the entries after it.
move_entry(entries, from_index, to_index) ==
    IF /\ 0 <= from_index /\ from_index < Len(entries)
       /\ 0 <= to_index /\ to_index < Len(entries)
    THEN list_insert(list_pop(entries, from_index), to_index,
                     list_item(entries, from_index))
    ELSE entries

\* The indices the operations are called with: below, inside and past every
\* list.
EditIndices == (0 - 2)..(MaxEntries + 1)

\* The entries of the setlists edited: three songs, no delay.
EditEntries ==
    { SetlistEntry(Song_from_dict(<< d >>).sections, 0) :
        d \in {DictA, DictB, DictC} }

\* The setlists edited: every list of up to MaxEntries of these entries, an
\* entry more than once included.
EditSetlists == UNION { [1..n -> EditEntries] : n \in 0..MaxEntries }

\* current_setlist.remove_entry(index) on the setlist loaded.
RemoveEntry(index) ==
    /\ ctl_pc = "ready"
    /\ ops < limits.ops
    /\ current_setlist # None
    /\ ops' = ops + 1
    /\ last_call' = "remove_entry"
    /\ current_setlist' = Some(remove_entry(current_setlist[1], index))
    /\ raised' = "none"
    /\ UNCHANGED << metronome_vars, on_beat, sound_manager, tap_times,
                    walk_vars, limits, thread_vars, ctl_pc, song, now,
                    history_vars >>

\* current_setlist.move_entry(from_index, to_index) on the setlist loaded.
MoveEntry(from_index, to_index) ==
    /\ ctl_pc = "ready"
    /\ ops < limits.ops
    /\ current_setlist # None
    /\ ops' = ops + 1
    /\ last_call' = "move_entry"
    /\ current_setlist' =
          Some(move_entry(current_setlist[1], from_index, to_index))
    /\ raised' = "none"
    /\ UNCHANGED << metronome_vars, on_beat, sound_manager, tap_times,
                    walk_vars, limits, thread_vars, ctl_pc, song, now,
                    history_vars >>

\* ------------------------------------------------------------ specification
Next ==
    \/ PlayBegin
    \/ \E j \in JitterSet : CountInTick(j)
    \/ LoopTop
    \/ \E j \in JitterSet : Tick(j)
    \/ StopClear
    \/ StopJoin
    \/ StartSongFlow
    \/ \E f \in SongFiles : LoadSong(f)
    \/ \E e \in StartEntries : UiStartMetronome(e)
    \/ \E v \in SliderValues : SetBpm(v)
    \/ \E m \in {"None", "Speed Up", "Slow Down"} : SetTempoChangeMode(m)
    \/ OnSwingToggle
    \/ \E b \in BOOLEAN : SetCountInEnabled(b)
    \/ \E a \in TempoChangeAssignments : AssignTempoChange(a)

Spec == Init /\ [][Next]_vars

\* ------------------------------------------------------------ Sound Player failure
\* SoundManager.play_sample calls pygame's set_volume and play with no
\* exception handler, and neither has play(): when the mixer raises, the
\* exception leaves play() at the call, after the tick identity was computed
\* and before the observer, the bar counter and the deadline.
TickPlaySampleRaises ==
    /\ pc = "tick"
    /\ emitted < limits.emitted
    /\ TickResult.stage \notin {"beat", "accent"}
    /\ tick_count' = tick_count + 1
    /\ PlaySample
    /\ IF snapshot_due(TickResult.is_accented)
       THEN TakeSnapshot
       ELSE UNCHANGED sample_locals
    /\ trace' = Append(trace,
                       TickRecord(TickResult.is_accented, bar_count,
                                  << sample_call(TickResult.is_accented,
                                                 accented_sample_name',
                                                 regular_sample_name',
                                                 accented_volume',
                                                 regular_volume') >>))
    /\ pc' = "crashed"
    /\ exit_reason' = "sound exception"
    /\ UNCHANGED << metronome_vars, settings_vars, bar_count, countin_left,
                    control_vars, now, notified, delay_sum, stopped,
                    countin_emitted, countin_calls, run, fresh >>

\* The same in the count-in phase.
CountInPlaySampleRaises ==
    /\ pc = "countin"
    /\ emitted < limits.emitted
    /\ PlaySample
    /\ pc' = "crashed"
    /\ exit_reason' = "count-in sound exception"
    /\ countin_emitted' = countin_emitted + 1
    /\ countin_calls' = Append(countin_calls, count_in_call)
    /\ UNCHANGED << metronome_vars, settings_vars, tick_count, bar_count,
                    countin_left, sample_locals, control_vars, now, notified,
                    delay_sum, stopped, trace, run, fresh >>

NextSoundFailure ==
    \/ Next
    \/ TickPlaySampleRaises
    \/ CountInPlaySampleRaises

\* The program with a Sound Player whose mixer may raise.
SpecSoundFailure == Init /\ [][NextSoundFailure]_vars

\* ------------------------------------------------------------ Section Sequencer
\* Songs of two sections: bars 2 and 3 in one meter, and bars 1 and 1 in two
\* meters.
DictV == Dict("V", 2, 120, 1, 1, FALSE)
DictW == Dict("W", 3, 90, 1, 1, FALSE)

SequencerSongs == { <<DictV, DictW>>, <<DictC, DictA>> }

InitSequencer ==
    /\ Constructed
    /\ limits = [emitted |-> MaxSequencerEmitted, ops |-> MaxSequencerOps]

\* The playback loop, and a control context that loads songs, starts the
\* sequence and stops.
NextSequencer ==
    \/ PlayBegin
    \/ \E j \in JitterSet : CountInTick(j)
    \/ LoopTop
    \/ \E j \in JitterSet : Tick(j)
    \/ StopClear
    \/ StopJoin
    \/ StartSongFlow
    \/ \E f \in SequencerSongs : LoadSong(f)

SpecSequencer == InitSequencer /\ [][NextSequencer]_vars

\* ------------------------------------------------------------ per-tick dispatch
\* The entry texts: 4 beats of 2 subdivisions with a count-in of 2 bars, and
\* 2 beats of 2 subdivisions with a count-in of 1 bar.
DispatchEntries ==
    { Entries(Num(0), Num(4), Num(2), Num(5), Num(4), Num(2)),
      Entries(Num(0), Num(2), Num(2), Num(5), Num(4), Num(1)) }

InitDispatch ==
    /\ Constructed
    /\ limits = [emitted |-> MaxDispatchEmitted, ops |-> MaxDispatchOps]

\* The playback loop, and a control context that starts it and changes the
\* count-in switch, the sound settings and the observer.
NextDispatch ==
    \/ PlayBegin
    \/ \E j \in JitterSet : CountInTick(j)
    \/ LoopTop
    \/ \E j \in JitterSet : Tick(j)
    \/ \E e \in DispatchEntries : UiStartMetronome(e)
    \/ \E b \in BOOLEAN : SetCountInEnabled(b)
    \/ \E name \in SampleNames : SetAccentedSample(name)
    \/ \E name \in SampleNames : SetRegularSample(name)
    \/ \E v \in ScaleVolumes : SetAccentedVolume(v)
    \/ \E v \in ScaleVolumes : SetRegularVolume(v)
    \/ \E o \in Observers : SetOnBeat(o)

SpecDispatch == InitDispatch /\ [][NextDispatch]_vars

\* ------------------------------------------------------------ timer and tempo change
\* The entry texts: one beat of one subdivision with step 5, interval 4 and
\* no timer; and one beat of two subdivisions with a timer of one second.
TempoEntries ==
    { Entries(Num(0), Num(1), Num(1), Num(5), Num(4), Num(1)),
      Entries(Num(TimeUnitsPerSecond), Num(1), Num(2), Num(5), Num(4), Num(1)) }

\* Songs whose sections last four bars, at a tempo above MAX_BPM and at one
\* below MIN_BPM.
DictQ == Dict("Q", 4, 300, 1, 1, FALSE)
DictR == Dict("R", 4, 10, 1, 1, FALSE)

TempoSongs == { <<DictQ, DictR>>, <<DictR>> }

\* A position of the BPM slider.
TempoSliderValues == {MIN_BPM + 2}

InitTempo ==
    /\ Constructed
    /\ limits = [emitted |-> MaxTempoEmitted, ops |-> MaxTempoOps]

\* The playback loop, and a control context that chooses the tempo-change
\* mode, moves the BPM slider, loads a song, starts the loop or the sequence,
\* and stops.
NextTempo ==
    \/ PlayBegin
    \/ \E j \in JitterSet : CountInTick(j)
    \/ LoopTop
    \/ \E j \in JitterSet : Tick(j)
    \/ StopClear
    \/ StopJoin
    \/ \E v \in TempoSliderValues : SetBpm(v)
    \/ StartSongFlow
    \/ \E f \in TempoSongs : LoadSong(f)
    \/ \E e \in TempoEntries : UiStartMetronome(e)
    \/ \E m \in {"None", "Speed Up", "Slow Down"} : SetTempoChangeMode(m)

SpecTempo == InitTempo /\ [][NextTempo]_vars

\* ------------------------------------------------------------ tap tempo
InitTapTempo ==
    /\ Constructed
    /\ limits = [emitted |-> 0, ops |-> MaxTaps]

\* A control context that presses the tap-tempo button.
NextTapTempo == \E gap \in TapGaps : TapTempo(gap)

SpecTapTempo == InitTapTempo /\ [][NextTapTempo]_vars

\* ------------------------------------------------------------ swing
\* The entry texts: one beat per bar, of three subdivisions and of two.
SwingEntries ==
    { Entries(Num(0), Num(1), Num(3), Num(5), Num(4), Num(1)),
      Entries(Num(0), Num(1), Num(2), Num(5), Num(4), Num(1)) }

InitSwing ==
    /\ Constructed
    /\ limits = [emitted |-> MaxSwingEmitted, ops |-> MaxSwingOps]

\* The playback loop, and a control context that flips the swing check
\* button, moves the BPM slider and starts the loop.
NextSwing ==
    \/ PlayBegin
    \/ \E j \in JitterSet : CountInTick(j)
    \/ LoopTop
    \/ \E j \in JitterSet : Tick(j)
    \/ OnSwingToggle
    \/ \E v \in SliderValues : SetBpm(v)
    \/ \E e \in SwingEntries : UiStartMetronome(e)

SpecSwing == InitSwing /\ [][NextSwing]_vars

\* ------------------------------------------------------------ setlist walk
InitSetlist ==
    /\ Constructed
    /\ limits = [emitted |-> MaxSetlistEmitted, ops |-> MaxSetlistOps]

\* The playback loop, the callbacks of the walk, and a control context that
\* loads a setlist, plays it and stops.
NextSetlist ==
    \/ PlayBegin
    \/ \E j \in JitterSet : CountInTick(j)
    \/ LoopTop
    \/ \E j \in JitterSet : Tick(j)
    \/ StopClear
    \/ StopJoin
    \/ \E entries \in SetlistFiles : LoadSetlist(entries)
    \/ PlaySetlist
    \/ \E t \in timers : TimerFire(t)
    \/ TimePasses

SpecSetlist == InitSetlist /\ [][NextSetlist]_vars

\* ------------------------------------------------------------ setlist editing
InitSetlistEdit ==
    /\ Constructed
    /\ limits = [emitted |-> 0, ops |-> MaxEdits]

\* A control context that loads a setlist and removes and moves entries.
NextSetlistEdit ==
    \/ \E entries \in EditSetlists : LoadSetlist(entries)
    \/ \E index \in EditIndices : RemoveEntry(index)
    \/ \E from_index, to_index \in EditIndices :
          MoveEntry(from_index, to_index)

SpecSetlistEdit == InitSetlistEdit /\ [][NextSetlistEdit]_vars

\* ============================================================ claims

\* C1 (as claimed): in every reachable state bpm lies in [MIN_BPM, MAX_BPM].
\* start_song_flow and the section advance copy a section's bpm unclamped,
\* and a negative step passes through min(MAX_BPM, ...) unclamped from below.
C1_BpmWithinBounds == bpm \in MIN_BPM..MAX_BPM

\* C2: next_tick_time is start_time plus the sum of the delays computed in
\* this run, whatever the clock read at each tick.
C2_DriftFree == next_tick_time = start_time + delay_sum

\* C2 witness: at least three samples into a run, a tick has overrun its
\* deadline (the clock is past next_tick_time).
C2_Witness == emitted >= 3 /\ delay_sum > 0 /\ now > next_tick_time

\* C3: once stop() has returned the playback thread is not executing, no
\* sample is dispatched and no observer notified while it stays stopped, and
\* the step of stop() that resets the sequence state is taken only when the
\* thread is not executing.
C3_StopJoins ==
    [][ /\ stopped' => ~LoopAlive'
        /\ (stopped /\ stopped') => (emitted' = emitted /\ notified' = notified)
        /\ (ctl_pc = "joining" /\ ctl_pc' = "ready") => ~LoopAlive ]_vars

\* C3 witness: stop() has returned after waiting for a loop that had
\* dispatched samples and left through the running test.
C3_Witness ==
    /\ stopped
    /\ ctl_pc = "ready"
    /\ exit_reason = "stop"
    /\ emitted > 0
    /\ sections = << >>

\* C4 (as claimed): after stop() has cleared the flag the loop dispatches at
\* most one more sample.  The count-in for loop never tests the flag.
C4_AtMostOneSampleAfterClear == since_clear <= 1

\* C5 (as claimed): while the running flag is set the playback thread is
\* executing.  A ZeroDivisionError (subdivisions, beats_per_bar or the
\* tempo-change interval equal to 0) ends the thread with the flag set.
C5_RunningImpliesLoopExecuting == running => LoopAlive

\* A field that holds a valid positive integer.
ValidPositiveInt(x) == x.numeric /\ x.value > 0

\* The bpm a bar boundary yields with the default step and interval.
FallbackBpm(bar) ==
    IF tempo_change_mode = "Speed Up"
       /\ bar % DEFAULT_TEMPO_CHANGE_INTERVAL = 0
    THEN Min(MAX_BPM, bpm + DEFAULT_TEMPO_CHANGE_STEP)
    ELSE IF tempo_change_mode = "Slow Down"
            /\ bar % DEFAULT_TEMPO_CHANGE_INTERVAL = 0
    THEN Max(MIN_BPM, bpm - DEFAULT_TEMPO_CHANGE_STEP)
    ELSE bpm

\* C6 (as claimed): a tick that completes a bar while tempo_change_step or
\* tempo_change_interval is not a valid positive integer completes without
\* error and leaves the bpm that step 5 and interval 4 yield.
C6_FallbackOnInvalid ==
    [][ ( /\ pc = "tick"
          /\ bar_count' = bar_count + 1
          /\ ~(ValidPositiveInt(tempo_change_step)
               /\ ValidPositiveInt(tempo_change_interval)) )
        => (pc' = "loop" /\ bpm' = FallbackBpm(bar_count')) ]_vars

\* C7 (as claimed): a steady-state tick whose play_sample failed does not
\* end the playback thread (the tick goes on to the observer, the bar
\* counter and the next deadline).
C7_SoundFailureDoesNotEndLoop ==
    ~(pc = "crashed" /\ exit_reason = "sound exception")

\* C8 (as claimed): start_song_flow with an empty list fails with
\* InvalidInput and changes no state.
C8_EmptyListFails ==
    [][ (StartSongFlow /\ song = << >>)
        => (raised' = "InvalidInput"
            /\ UNCHANGED << metronome_vars, thread_vars >>) ]_vars

\* C8 (amended): start_song_flow with an empty list returns without raising
\* and changes no state: the sequence state, the tempo and meter, the running
\* flag and the thread are as before, and no playback loop is started.
C8_EmptyListIgnored ==
    [][ (StartSongFlow /\ song = << >>)
        => (raised' = "none"
            /\ UNCHANGED << metronome_vars, thread_vars >>) ]_vars

\* C8 witness: start_song_flow was just called with an empty list while a
\* playback loop was running and had dispatched samples.
C8_Witness ==
    /\ last_call = "start_song_flow"
    /\ song = << >>
    /\ running
    /\ emitted > 0

\* A section whose four numeric fields are all positive.
SectionPositive(s) ==
    s.bars > 0 /\ s.bpm > 0 /\ s.beats_per_bar > 0 /\ s.subdivisions > 0

\* C9: every section held by the control context or by the metronome has
\* bars, bpm, beats_per_bar and subdivisions > 0, and a song file fails to
\* load exactly when one of its sections has such a field <= 0.
C9_SectionsValidated ==
    /\ \A i \in 1..Len(song) : SectionPositive(song[i])
    /\ \A i \in 1..Len(sections) : SectionPositive(sections[i])
    /\ current_section # None => SectionPositive(current_section[1])
    /\ \A f \in SongFiles :
          Song_from_dict(f).raises
              <=> (\E i \in 1..Len(f) : ~SectionPositive(f[i]))

\* C9 witness: a song file with a non-positive field was refused.
C9_Witness == last_call = "load_song" /\ raised = "ValueError"

\* C10 (as claimed): whenever the loop has exited and no stop() is in
\* progress, the sequence state is reset.  Timer expiry and sequence
\* exhaustion only clear the flag.
C10_ExitResetsSequencer ==
    (pc = "exited" /\ ctl_pc = "ready")
        => /\ sections = << >>
           /\ current_section = None
           /\ current_section_index = 0

\* What identifies a tick: its number, the bars completed after it, its
\* section and its accent flag.
TickIdentity(t) == << t.tick_count, t.bar_count, t.section, t.is_accented >>

\* Two tick sequences agree as far as both go.
SameTicks(a, b) ==
    \A i \in 1..Min(Len(a), Len(b)) : TickIdentity(a[i]) = TickIdentity(b[i])

\* A run that start_song_flow started and no later start() call found running.
CleanSongRun(r) == r.via = "start_song_flow" /\ ~r.disturbed

\* C11: after stop() has returned the sequencer is idle (no thread, flag
\* clear, no sections, section index 0), a run begins with tick and bar
\* counters 0, and a run started by start_song_flow after stop() produces the
\* same ticks as the first run of the metronome did for the same sections.
C11_StopThenRestart ==
    /\ stopped => /\ ~running
                  /\ thread = None
                  /\ sections = << >>
                  /\ current_section = None
                  /\ current_section_index = 0
    /\ (LoopAlive /\ trace = << >>) => (tick_count = 0 /\ bar_count = 0)
    /\ ( /\ run.n >= 2
         /\ run.after_stop
         /\ CleanSongRun(run)
         /\ CleanSongRun(fresh.run)
         /\ fresh.run.sections = run.sections )
       => SameTicks(trace, fresh.trace)

\* C11 witness: the second run, started by start_song_flow after stop(), has
\* played into the second section, as the first run had for the same sections.
C11_Witness ==
    /\ run.n = 2
    /\ run.after_stop
    /\ CleanSongRun(run)
    /\ CleanSongRun(fresh.run)
    /\ fresh.run.sections = run.sections
    /\ Len(trace) >= 3
    /\ Len(fresh.trace) >= 3
    /\ trace[3].section = 1

\* The bars the first i sections of secs have together.
RECURSIVE BarsBefore(_, _)
BarsBefore(secs, i) ==
    IF i = 0 THEN 0 ELSE BarsBefore(secs, i - 1) + secs[i].bars

\* The bars completed by the first k ticks of the run.
BarsCompleted(k) == Cardinality({j \in 1..k : trace[j].bar_done})

\* C12: in a run of start_song_flow, a tick is played in section i exactly
\* when the bars completed before it are at least the bars of the sections
\* before i and fewer than those with section i added; the loop plays a
\* further tick only while bars are left, and leaves as exhausted only when
\* all bars of all sections are completed.  For bars = [2, 3]: index 1 after
\* 2 bars, finished after 3 more.
C12_AdvanceByBars ==
    CleanSongRun(run) =>
        /\ \A k \in 1..Len(trace) :
              LET s == trace[k].section
                  done == BarsCompleted(k - 1)
              IN  /\ s < Len(run.sections)
                  /\ BarsBefore(run.sections, s) <= done
                  /\ done < BarsBefore(run.sections, s + 1)
        /\ pc = "tick" =>
              BarsCompleted(Len(trace))
                  < BarsBefore(run.sections, Len(run.sections))
        /\ exit_reason = "exhausted" =>
              BarsCompleted(Len(trace))
                  = BarsBefore(run.sections, Len(run.sections))

\* C12 witness: the sections with bars 2 and 3 were played to the end: two
\* ticks (bars) in section 0, three in section 1, then finished.
C12_Witness ==
    /\ CleanSongRun(run)
    /\ run.sections = Song_from_dict(<<DictV, DictW>>).sections
    /\ exit_reason = "exhausted"
    /\ Len(trace) = 5
    /\ trace[2].section = 0
    /\ trace[3].section = 1
    /\ current_section_index = 2

\* All bars of all sections of the run are completed.
AllBarsCompleted ==
    BarsCompleted(Len(trace)) = BarsBefore(run.sections, Len(run.sections))

\* C13: once the bars of the last section are completed no further tick is
\* dispatched in that run, the next step of the loop leaves it with the
\* running flag clear, and a loop that left as exhausted has the flag clear
\* without any call of stop().
C13_ExhaustionStopsLoop ==
    [][ /\ exit_reason' = "exhausted" => (~running' /\ pc' = "exited")
        /\ (CleanSongRun(run) /\ run' = run /\ AllBarsCompleted)
              => /\ trace' = trace
                 /\ emitted' = emitted
                 /\ (pc = "loop" /\ pc' # "loop")
                       => (pc' = "exited" /\ ~running') ]_vars

\* C13 witness: a sequence was played to its end and the loop left by itself;
\* stop() was not called.
C13_Witness ==
    /\ CleanSongRun(run)
    /\ AllBarsCompleted
    /\ exit_reason = "exhausted"
    /\ last_call = "start_song_flow"
    /\ ~stopped
    /\ Len(trace) >= 2

\* C14 (as claimed): while one run lasts the section index stays or grows by
\* one, and a tick of a section sequence is played with an index inside the
\* section list.  start_song_flow called while the loop runs sets the index
\* back to 0, and start() after an exhausted sequence plays the last section
\* again with the index past the end of the list.
C14_IndexAdvancesByOne ==
    [][ /\ (run'.n = run.n /\ LoopAlive /\ LoopAlive')
              => current_section_index'
                     \in {current_section_index, current_section_index + 1}
        /\ (pc' = "tick" /\ current_section' # None)
              => current_section_index' < Len(sections') ]_vars

\* C15: when play() finds the count-in enabled it dispatches exactly
\* beats_per_bar * count_in_bars count-in samples before the loop's first
\* tick, and none when it finds it disabled; after the first tick the number
\* of count-in samples of the run no longer changes.
C15_CountInLength ==
    [][ /\ (pc = "start" /\ pc' # "start" /\ run' = run)
              => /\ countin_emitted' = 0
                 /\ pc' = "countin"
                       <=> (count_in_enabled
                            /\ beats_per_bar * count_in_bars > 0)
        /\ (pc = "countin" /\ pc' = "loop" /\ ~run.disturbed)
              => countin_emitted' = beats_per_bar * count_in_bars
        /\ (pc' \in {"loop", "tick"} /\ run' = run)
              => countin_emitted' = countin_emitted
                     + (IF pc = "countin" THEN 1 ELSE 0) ]_vars

\* C15 witness: with 4 beats per bar and 2 count-in bars, eight count-in
\* samples were dispatched and then the first steady-state tick.
C15_Witness ==
    /\ ~run.disturbed
    /\ beats_per_bar = 4
    /\ count_in_bars = 2
    /\ countin_emitted = 8
    /\ Len(trace) = 1
    /\ emitted = 9

\* C16: in a run whose meter is not changed, tick k carries tick_count k and
\* is accented exactly when (k - 1) mod (beats_per_bar * subdivisions) = 0;
\* so the first tick is accented, after a count-in or without one.
C16_AccentEveryMeasure ==
    (run.n >= 1 /\ ~run.disturbed /\ current_section = None) =>
        \A k \in 1..Len(trace) :
            /\ trace[k].tick_count = k
            /\ trace[k].is_accented
                  <=> ((k - 1) % (beats_per_bar * subdivisions) = 0)

\* C16 witness: 4 beats of 2 subdivisions, the count-in switched off: ticks 1
\* and 9 are accented and ticks 2 to 8 are not.
C16_Witness ==
    /\ ~run.disturbed
    /\ current_section = None
    /\ beats_per_bar = 4
    /\ subdivisions = 2
    /\ countin_emitted = 0
    /\ Len(trace) = 9
    /\ trace[1].is_accented
    /\ trace[9].is_accented
    /\ \A k \in 2..8 : ~trace[k].is_accented

\* The play_sample calls among the calls of a tick.
PlayCalls(t) == SelectSeq(t.calls, LAMBDA c : c.fn = "play_sample")

\* The on_beat calls among the calls of a tick.
ObserverCalls(t) == SelectSeq(t.calls, LAMBDA c : c.fn = "on_beat")

\* C17: every step that plays a steady-state tick dispatches exactly one
\* sample: with the accent name and accent volume the loop holds if the tick
\* is accented, with the regular name and regular volume if it is not.
C17_OneSamplePerTick ==
    [][ trace' # trace /\ trace' # << >> =>
          LET t == trace'[Len(trace')]
          IN  /\ Len(trace') = Len(trace) + 1
              /\ emitted' = emitted + 1
              /\ Len(PlayCalls(t)) = 1
              /\ PlayCalls(t)[1].args
                    = IF t.is_accented
                      THEN << accented_sample_name', accented_volume' >>
                      ELSE << regular_sample_name', regular_volume' >> ]_vars

\* C17 witness: an accented tick and a regular tick were dispatched, with
\* different samples and different volumes.
C17_Witness ==
    /\ Len(trace) >= 2
    /\ trace[1].is_accented
    /\ ~trace[2].is_accented
    /\ PlayCalls(trace[1])[1].args[1] # PlayCalls(trace[2])[1].args[1]
    /\ PlayCalls(trace[1])[1].args[2] # PlayCalls(trace[2])[1].args[2]

\* The last accented tick up to tick k (tick 1 is accented).
MeasureStart(k) ==
    CHOOSE a \in 1..k :
        /\ trace[a].is_accented
        /\ \A i \in (a + 1)..k : ~trace[i].is_accented

\* The sample a tick plays under the settings st.
SampleUnder(st, is_accented) ==
    IF is_accented
    THEN << st.accented_sample_var, st.accented_volume >>
    ELSE << st.regular_sample_var, st.regular_volume >>

\* C18: every tick plays the sample that the settings of the sound manager
\* prescribed when the last accented tick was played, whatever the settings
\* are when the tick itself is played.
C18_SnapshotPerMeasure ==
    \A k \in 1..Len(trace) :
        /\ \E a \in 1..k : trace[a].is_accented
        /\ PlayCalls(trace[k])[1].args
              = SampleUnder(trace[MeasureStart(k)].settings,
                            trace[k].is_accented)

\* C18 witness: a regular tick was played after the regular sample or volume
\* had been changed within its measure, and it did not use the new one.
C18_Witness ==
    \E k \in 1..Len(trace) :
        /\ ~trace[k].is_accented
        /\ SampleUnder(trace[k].settings, FALSE)
              # SampleUnder(trace[MeasureStart(k)].settings, FALSE)
        /\ PlayCalls(trace[k])[1].args
              # SampleUnder(trace[k].settings, FALSE)

\* C19: a tick played while an observer is registered calls it exactly once,
\* after the sample, with the accent flag of the tick; a tick played while
\* none is registered makes the sample call alone; the observer calls of the
\* run are as many as the ticks played with an observer.
C19_ObserverOncePerTick ==
    /\ \A k \in 1..Len(trace) :
          LET t == trace[k]
          IN  IF t.observer # None
              THEN /\ Len(t.calls) = 2
                   /\ t.calls[1].fn = "play_sample"
                   /\ t.calls[2] = Call("on_beat", << t.is_accented >>)
              ELSE /\ Len(t.calls) = 1
                   /\ t.calls[1].fn = "play_sample"
    /\ notified = Cardinality({k \in 1..Len(trace) : trace[k].observer # None})

\* C19 witness: ticks with the observer of the interface, accented and not,
\* and then, the observer removed, a further tick.
C19_Witness ==
    /\ Len(trace) >= 3
    /\ trace[1].observer = Some(UiOnBeat)
    /\ trace[2].observer = Some(UiOnBeat)
    /\ ObserverCalls(trace[1])[1].args = << TRUE >>
    /\ ObserverCalls(trace[2])[1].args = << FALSE >>
    /\ trace[Len(trace)].observer = None

\* C20 (as claimed): the playback thread is never held inside a call of the
\* observer.  play() calls on_beat itself and goes on when the call returns.
C20_ObserverNeverHoldsLoop == pc # "observer"

\* C21: a loop iteration that begins with the flag set, a timer set and the
\* duration elapsed clears the flag and leaves the loop, dispatching nothing
\* and notifying nobody; the loop is left for the timer in no other case, so
\* never with timer_duration = 0.
C21_TimerStopsLoop ==
    [][ (pc = "loop" /\ pc' # "loop" /\ running) =>
          /\ (timer_duration > 0 /\ now - start_time >= timer_duration)
                => /\ ~running'
                   /\ pc' = "exited"
                   /\ exit_reason' = "timer"
                   /\ emitted' = emitted
                   /\ notified' = notified
                   /\ trace' = trace
          /\ exit_reason' = "timer"
                => (timer_duration > 0 /\ now - start_time >= timer_duration)
      ]_vars

\* C21 witness: a run with a timer of one second was ended by the timer when
\* exactly one second had elapsed, after it had played ticks.
C21_Witness ==
    /\ pc = "exited"
    /\ exit_reason = "timer"
    /\ ~running
    /\ timer_duration = TimeUnitsPerSecond
    /\ now - start_time = timer_duration
    /\ Len(trace) >= 2

\* The step and the interval _handle_tempo_change works with.
EffectiveStep ==
    IF tempo_change_step.numeric /\ tempo_change_interval.numeric
    THEN tempo_change_step.value ELSE DEFAULT_TEMPO_CHANGE_STEP

EffectiveInterval ==
    IF tempo_change_step.numeric /\ tempo_change_interval.numeric
    THEN tempo_change_interval.value ELSE DEFAULT_TEMPO_CHANGE_INTERVAL

\* A tick is played that completes bar number bar_count'.
BarCompleted == pc = "tick" /\ tick_count' = tick_count + 1
                /\ bar_count' = bar_count + 1

\* The tempo change triggers in this step.
TempoChangeTriggers ==
    /\ BarCompleted
    /\ tempo_change_mode \in {"Speed Up", "Slow Down"}
    /\ EffectiveInterval # 0
    /\ PyMod(bar_count', EffectiveInterval) = 0

\* C22: a tick changes bpm only if it completes a bar whose number is a
\* multiple of the interval and the mode is not None; and with Speed Up such
\* a tick adds the step (up to MAX_BPM).  So with step 5 and interval 4 the
\* bpm grows at bars 4 and 8 and at no other bar up to 8.
C22_TempoChangeOnInterval ==
    [][ (pc = "tick" /\ tick_count' = tick_count + 1) =>
          /\ bpm' # bpm => TempoChangeTriggers
          /\ (TempoChangeTriggers /\ tempo_change_mode = "Speed Up"
               /\ EffectiveStep > 0 /\ bpm + EffectiveStep <= MAX_BPM)
                => bpm' = bpm + EffectiveStep
          /\ tempo_change_mode = "None" => bpm' = bpm ]_vars

\* C22 witness: eight bars with Speed Up, step 5 and interval 4 from the
\* default tempo: two increases.
C22_Witness ==
    /\ ~run.disturbed
    /\ run.via = "_start_metronome"
    /\ tempo_change_mode = "Speed Up"
    /\ tempo_change_step = Num(5)
    /\ tempo_change_interval = Num(4)
    /\ bar_count = 8
    /\ Len(trace) = 8
    /\ bpm = DEFAULT_BPM + 5 + 5

\* C23 (as claimed): when the tempo change triggers with a positive step,
\* Speed Up leaves min(MAX_BPM, bpm + step) and does not lower the bpm, and
\* Slow Down leaves max(MIN_BPM, bpm - step) and does not raise it.  A
\* section tempo above MAX_BPM is lowered by Speed Up, and one below MIN_BPM
\* is raised by Slow Down.
C23_TempoChangeMonotone ==
    [][ (TempoChangeTriggers /\ EffectiveStep > 0) =>
          IF tempo_change_mode = "Speed Up"
          THEN bpm' = Min(MAX_BPM, bpm + EffectiveStep) /\ bpm' >= bpm
          ELSE bpm' = Max(MIN_BPM, bpm - EffectiveStep) /\ bpm' <= bpm
      ]_vars

\* The sections as the song files define them.
SuppliedSections ==
    UNION { { Song_from_dict(f).sections[k] : k \in 1..Len(f) } :
            f \in TempoSongs }

\* Every section held anywhere is as it was supplied.
SectionsAsSupplied ==
    /\ \A k \in 1..Len(song) : song[k] \in SuppliedSections
    /\ \A k \in 1..Len(sections) : sections[k] \in SuppliedSections
    /\ current_section # None => current_section[1] \in SuppliedSections

\* C27: every section the control context or the metronome holds keeps the
\* values it was supplied with, whatever the run does to bpm and meter; a
\* step of the playback thread leaves the song and the section list as they
\* are and makes current_section one of the sections of the list.
C27_SectionsNeverMutated ==
    [][ /\ SectionsAsSupplied'
        /\ (ops' = ops /\ ctl_pc' = ctl_pc)
              => /\ song' = song
                 /\ sections' = sections
                 /\ current_section' # current_section
                       => \E k \in 1..Len(sections) :
                              current_section' = Some(sections[k]) ]_vars

\* C27 witness: the second section of a sequence plays, after a tempo change
\* in the first and one in the second: the bpm is that of neither section,
\* and the sections are as loaded.
C27_Witness ==
    /\ current_section_index = 1
    /\ sections = song
    /\ Len(sections) = 2
    /\ current_section = Some(sections[2])
    /\ tempo_change_mode = "Speed Up"
    /\ Len(trace) = 8
    /\ bpm = sections[2].bpm + DEFAULT_TEMPO_CHANGE_STEP
    /\ sections[1].bpm = 300
    /\ sections[2].bpm = 10

\* C28: a thread is created only when no playback thread is executing, so
\* at most one dispatches; start() called while the flag is set leaves the
\* flag, the thread, the timestamps and the state of the running loop as
\* they are; and a sample is dispatched only by the executing thread of the
\* current run.
C28_SinglePlaybackThread ==
    [][ /\ run'.n # run.n => (~LoopAlive /\ ~running /\ pc' = "start")
        /\ (running /\ ops' = ops + 1
             /\ last_call' \in {"_start_metronome", "start_song_flow"})
              => /\ run'.n = run.n
                 /\ UNCHANGED << running, thread, start_time, next_tick_time,
                                 thread_vars, emitted, trace >>
        /\ emitted' # emitted => (LoopAlive \/ run'.n # run.n) ]_vars

\* C28 witness: a second thread plays after the first was ended by its timer,
\* and a start() call that found it running has created none.
C28_Witness ==
    /\ run.n = 2
    /\ run.disturbed
    /\ ~run.after_stop
    /\ running
    /\ emitted > 0

\* The values the clamp is tried on: from below MIN_BPM to above MAX_BPM.
ClampInputs == (0 - MAX_BPM)..(3 * MAX_BPM)

\* C24: the clamp yields a value in [MIN_BPM, MAX_BPM] and is idempotent, for
\* every integer tried; and the bpm a tap leaves is the clamped tempo of the
\* taps, which clamping again does not change.
C24_ClampIdempotent ==
    /\ \A x \in ClampInputs :
          /\ clamp_bpm(x) \in MIN_BPM..MAX_BPM
          /\ clamp_bpm(clamp_bpm(x)) = clamp_bpm(x)
          /\ x \in MIN_BPM..MAX_BPM => clamp_bpm(x) = x
    /\ Len(tap_times) >= 2
          => /\ bpm = clamp_bpm(tap_bpm(tap_times))
             /\ bpm \in MIN_BPM..MAX_BPM
             /\ clamp_bpm(bpm) = bpm

\* C24 witness: taps 0.1 s apart, a tempo of 600, have left MAX_BPM.
C24_Witness ==
    /\ last_call = "_tap_tempo"
    /\ Len(tap_times) >= 2
    /\ tap_bpm(tap_times) = 600
    /\ bpm = MAX_BPM

\* C25: a tick played with subdivisions other than 2 advances next_tick_time
\* by 60 / (bpm * subdivisions), swing on or off, and at every position in
\* the beat the delay with swing on is the delay with swing off, in time
\* units and as the float Python computes.
C25_SwingNeedsTwoSubdivisions ==
    [][ (pc = "tick" /\ pc' = "loop" /\ subdivisions # 2)
        => /\ next_tick_time' - next_tick_time
                = PyFloorDiv(60 * TimeUnitsPerSecond, bpm' * subdivisions)
           /\ \A t \in 0..(subdivisions - 1) :
                /\ delay_for(TRUE, subdivisions, t, bpm')
                     = delay_for(FALSE, subdivisions, t, bpm')
                /\ delay_seconds(TRUE, subdivisions, t, bpm')
                     = delay_seconds(FALSE, subdivisions, t, bpm')
                /\ delay_seconds(TRUE, subdivisions, t, bpm')
                     = F64DivInt(60, bpm' * subdivisions) ]_vars

\* Swing is on, the subdivisions are three, and a whole beat has been played.
C25_Witness ==
    /\ swing_enabled
    /\ subdivisions = 3
    /\ pc = "loop"
    /\ ~run.disturbed
    /\ Len(trace) >= 3

\* C26 (as claimed): with swing on and two subdivisions the delay of the
\* first tick of a beat is 2/3 of a beat and that of the second 1/3, the first
\* is twice the second, and the two sum to exactly one beat, 60 / bpm, as do
\* the two delays without swing.  In floats the sum is not 60 / bpm at
\* every tempo.
C26_SwingSplitsBeat ==
    (swing_enabled /\ subdivisions = 2 /\ pc = "loop" /\ Len(trace) >= 2)
    => LET beat == F64DivInt(60, bpm)
           long == delay_seconds(TRUE, 2, 0, bpm)
           short == delay_seconds(TRUE, 2, 1, bpm)
       IN  /\ long = F64Mul(beat, F64DivInt(2, 3))
           /\ short = F64Mul(beat, F64DivInt(1, 3))
           /\ long = F64Add(short, short)
           /\ F64Add(delay_seconds(FALSE, 2, 0, bpm),
                     delay_seconds(FALSE, 2, 1, bpm)) = beat
           /\ F64Add(long, short) = beat

\* C29: every completed iteration of the loop dispatches exactly one tick
\* and advances next_tick_time by exactly the delay it computed, raising
\* nothing; it returns to the top of the loop no earlier than the new
\* deadline, and when the deadline was missed (the clock is past it) no time
\* was slept: only the time the iteration itself took has elapsed.
C29_OverrunCatchesUp ==
    [][ (pc = "tick" /\ pc' = "loop")
        => /\ emitted' = emitted + 1
           /\ Len(trace') = Len(trace) + 1
           /\ next_tick_time' = next_tick_time
                + delay_for(swing_enabled, subdivisions,
                            (tick_count' - 1) % subdivisions, bpm')
           /\ exit_reason' = exit_reason
           /\ raised' = raised
           /\ now' >= next_tick_time'
           /\ now' > next_tick_time' => (now' - now) \in JitterSet
           /\ (now' - now) \notin JitterSet => now' = next_tick_time' ]_vars

\* A tick has missed its deadline and the loop went on without sleeping and
\* without leaving: three ticks were played and the clock is past
\* next_tick_time.
C29_Witness ==
    /\ pc = "loop"
    /\ exit_reason = "none"
    /\ raised = "none"
    /\ Len(trace) >= 3
    /\ now > next_tick_time

\* C30 (as claimed): the loop writes bpm only at a bar boundary: a tick
\* changes bpm only if it completes a bar (tick_count mod (beats_per_bar *
\* subdivisions) = 0), and the section advance, which sets bpm, is taken only
\* directly after a tick that completed a bar.
C30_BpmChangesAtBarBoundary ==
    [][ /\ (pc = "tick" /\ tick_count' = tick_count + 1 /\ bpm' # bpm)
            => /\ beats_per_bar * subdivisions # 0
               /\ PyMod(tick_count', beats_per_bar * subdivisions) = 0
        /\ (pc = "loop" /\ pc' = "tick"
              /\ current_section_index' = current_section_index + 1)
            => /\ trace # << >>
               /\ trace[Len(trace)].bar_done ]_vars

\* C31: start_song_flow with a non-empty list, called while the metronome is
\* not running, sets the section list, index 0 and section 0, copies bpm,
\* beats_per_bar, subdivisions and swing_enabled from section 0 and starts a
\* thread that has dispatched nothing; play() begins with tick and bar
\* counters 0; and when the run dispatches its first sample (of the count-in
\* or of the loop) the index is 0, the settings are those of section 0 and
\* the bar counter is 0.
C31_SongFlowSeedsSectionZero ==
    [][ /\ (last_call' = "start_song_flow" /\ ops' = ops + 1
              /\ song # << >> /\ ~running)
            => /\ sections' = song
               /\ current_section_index' = 0
               /\ current_section' = Some(song[1])
               /\ bpm' = song[1].bpm
               /\ beats_per_bar' = song[1].beats_per_bar
               /\ subdivisions' = song[1].subdivisions
               /\ swing_enabled' = song[1].swing_enabled
               /\ running'
               /\ pc' = "start"
               /\ emitted' = 0
               /\ countin_calls' = << >>
               /\ trace' = << >>
        /\ (pc = "start" /\ pc' # "start" /\ run' = run)
            => /\ tick_count' = 0
               /\ bar_count' = 0
               /\ emitted' = 0
        /\ (CleanSongRun(run) /\ run' = run /\ emitted = 0 /\ emitted' = 1)
            => /\ current_section_index = 0
               /\ current_section = Some(run.sections[1])
               /\ bpm = run.sections[1].bpm
               /\ beats_per_bar = run.sections[1].beats_per_bar
               /\ subdivisions = run.sections[1].subdivisions
               /\ swing_enabled = run.sections[1].swing_enabled
               /\ bar_count = 0
               /\ tick_count = 0 ]_vars

\* C31 witness: a second run, started by start_song_flow with other sections
\* than the first, has dispatched its first count-in sample with the
\* settings of its section 0.
C31_Witness ==
    /\ run.n = 2
    /\ CleanSongRun(run)
    /\ fresh.run.sections # << >>
    /\ fresh.run.sections[1] # run.sections[1]
    /\ emitted = 1
    /\ countin_emitted = 1
    /\ current_section_index = 0
    /\ current_section = Some(run.sections[1])
    /\ bpm = run.sections[1].bpm
    /\ beats_per_bar = run.sections[1].beats_per_bar

\* C32: an iteration of the count-in dispatches the count-in sample at the
\* count-in volume and nothing else: the section index, the current section,
\* the section list, the bar and tick counters and bpm stay as they are, no
\* observer is notified and no tick is played; while the count-in lasts no
\* tick has been played and no observer notified; the loop is entered with
\* tick_count 0, and the first tick of a run is tick 1.
C32_CountInTouchesNothing ==
    [][ /\ (pc = "countin" /\ emitted' = emitted + 1)
            => /\ current_section_index' = current_section_index
               /\ current_section' = current_section
               /\ sections' = sections
               /\ bar_count' = bar_count
               /\ tick_count' = tick_count
               /\ bpm' = bpm
               /\ notified' = notified
               /\ trace' = trace
               /\ countin_calls'
                    = Append(countin_calls,
                             Call("play_sample", << DEFAULT_COUNTIN_SAMPLE,
                                                    DEFAULT_COUNTIN_VOLUME >>))
        /\ pc' = "countin"
            => (notified' = 0 /\ trace' = << >> /\ tick_count' = 0)
        /\ (pc = "countin" /\ pc' = "loop")
            => (tick_count' = 0 /\ bar_count' = 0)
        /\ trace' # << >> => trace'[1].tick_count = 1 ]_vars

\* C32 witness: a run of a section list has had its count-in of two samples
\* and played its first tick.
C32_Witness ==
    /\ CleanSongRun(run)
    /\ current_section # None
    /\ Len(countin_calls) = 2
    /\ countin_emitted = 2
    /\ Len(trace) >= 1
    /\ trace[1].tick_count = 1

\* C33: the k-th tick of a run is played with tick_count = k: the counter is
\* 0 when the loop is entered, grows by exactly 1 on every tick, and no other
\* step of the run, the section advance included, changes it.
C33_TickCountMonotone ==
    [][ /\ \A k \in 1..Len(trace') : trace'[k].tick_count = k
        /\ Len(trace') = Len(trace) + 1 => tick_count' = Len(trace')
        /\ (pc = "tick" /\ tick_count' # tick_count)
            => tick_count' = tick_count + 1
        /\ (pc = "loop" /\ run'.n = run.n) => tick_count' = tick_count
        /\ (run'.n = run.n /\ LoopAlive /\ LoopAlive')
            => tick_count' \in {tick_count, tick_count + 1} ]_vars

\* C33 witness: eight ticks of a section list were played, the fifth in the
\* second section, and the tick that completed bar 4 of that section changed
\* the tempo.
C33_Witness ==
    /\ CleanSongRun(run)
    /\ last_call = "start_song_flow"
    /\ tempo_change_mode # "None"
    /\ Len(trace) = 8
    /\ tick_count = 8
    /\ trace[4].section = 0
    /\ trace[5].section = 1
    /\ current_section # None
    /\ bpm # current_section[1].bpm

\* SongSection.get_total_ticks().
get_total_ticks(s) == s.bars * s.beats_per_bar * s.subdivisions

\* The ticks the first i sections of secs have together.
RECURSIVE TicksBefore(_, _)
TicksBefore(secs, i) ==
    IF i = 0 THEN 0 ELSE TicksBefore(secs, i - 1) + get_total_ticks(secs[i])

\* The ticks of the run played in section i (counted from 0).
TicksPlayedIn(i) == Cardinality({k \in 1..Len(trace) : trace[k].section = i})

\* The loop has left section i: a tick of a later section was played, or the
\* sequence is exhausted.
SectionLeft(i) ==
    \/ exit_reason = "exhausted"
    \/ \E k \in 1..Len(trace) : trace[k].section > i

\* C34 (as claimed): in a run of start_song_flow every section the loop has
\* left was played for exactly bars * beats_per_bar * subdivisions ticks, and
\* an exhausted sequence has played the sum of these over its sections.
\* tick_count runs on across sections, so a bar of a section whose meter
\* differs from the one before it can be completed early.
C34_SectionTotalTicks ==
    CleanSongRun(run) =>
        /\ \A i \in 0..(Len(run.sections) - 1) :
              SectionLeft(i)
                  => TicksPlayedIn(i) = get_total_ticks(run.sections[i + 1])
        /\ exit_reason = "exhausted"
              => Len(trace) = TicksBefore(run.sections, Len(run.sections))

\* C35 (as claimed): in a run of start_song_flow a tick is accented exactly
\* when it is the first tick of the run or the tick before it completed a
\* bar, and the first tick of every section is accented.  The accent is
\* computed from tick_count, which runs on across sections, and from the
\* meter of the new section.
C35_AccentsFollowBars ==
    CleanSongRun(run) =>
        \A k \in 1..Len(trace) :
            /\ trace[k].is_accented <=> (k = 1 \/ trace[k - 1].bar_done)
            /\ (k > 1 /\ trace[k].section # trace[k - 1].section)
                  => trace[k].is_accented

\* C36 (as claimed): the control context writes the sequence state only
\* while no playback loop is executing: a start_song_flow call with a
\* non-empty list and the reset at the end of stop() find no loop executing,
\* an executing loop has the section list its run was started with, and the
\* section advance reads a section inside the list.  play_next_song calls
\* start_song_flow without looking at the loop.
C36_SequenceStateWrittenWhenIdle ==
    [][ /\ (ops' = ops + 1 /\ last_call' = "start_song_flow" /\ song # << >>)
            => ~LoopAlive
        /\ (ctl_pc = "joining" /\ ctl_pc' = "ready") => ~LoopAlive
        /\ (LoopAlive' /\ run'.n >= 1) => sections' = run'.sections
        /\ (pc = "loop" /\ pc' = "tick"
              /\ current_section_index' = current_section_index + 1)
            => current_section_index' < Len(sections) ]_vars

\* The songs walk w has started, in the order of their start.
WalkStarts(w) == SelectSeq(started, LAMBDA r : r.walk = w)

\* The songs of every walk were started in list order, each once; a song
\* after the first was started by a look at the running flag that followed
\* the start of the song before it and found no loop executing, and not
\* before the delay of that song had passed since: the whole of it, or the
\* whole milliseconds of it that root.after is given.
StartsInOrder(whole) ==
    \A w \in 1..walk.n :
        LET s == WalkStarts(w)
            entries == current_setlist[1]
            elapsed(d) == IF whole THEN d ELSE after_delay(d)
        IN  \A k \in 1..Len(s) :
                /\ k <= Len(entries)
                /\ s[k].index = k - 1
                /\ k > 1 =>
                      /\ ~s[k].idle.loop_alive
                      /\ s[k].idle.at >= s[k - 1].at
                      /\ s[k].idle.delay_after = entries[k - 1].delay_after
                      /\ s[k].at >= s[k].idle.at + elapsed(entries[k - 1].delay_after)

\* play_next_song past the last entry clears the flag, starts nothing and
\* arms nothing.
WalkEnds ==
    \A t \in timers :
        ( /\ t \notin timers'
          /\ t.fn = "play_next_song"
          /\ t.index >= Len(current_setlist[1]) )
            => /\ ~setlist_active'
               /\ started' = started
               /\ timers' = timers \ {t}
               /\ running' = running

C38_StopCancelsWalk ==
    [][ Len(started') > Len(started)
          => started'[Len(started')].walk \notin walk'.cancelled ]_vars

\* The number of times x stands in l.
CountOf(l, x) == Cardinality({k \in 1..Len(l) : l[k] = x})

\* move_entry with both indices inside the list: same length, same entries
\* as often, the moved entry at to_index, the others in the order they had.
MoveInRange(l, from_index, to_index) ==
    LET m == move_entry(l, from_index, to_index)
    IN  /\ Len(m) = Len(l)
        /\ \A k \in 1..Len(l) : CountOf(m, l[k]) = CountOf(l, l[k])
        /\ m[to_index + 1] = l[from_index + 1]
        /\ list_pop(m, to_index) = list_pop(l, from_index)

\* remove_entry with the index inside the list: the entries before it stay,
\* the entries after it move up by one.
RemoveInRange(l, index) ==
    LET m == remove_entry(l, index)
    IN  /\ Len(m) = Len(l) - 1
        /\ \A k \in 1..Len(m) : m[k] = IF k <= index THEN l[k] ELSE l[k + 1]

\* C39: for the setlist loaded and every pair of indices, inside the list
\* or not: move_entry with both indices inside keeps the length and the
\* entries, puts the moved entry at to_index and keeps the order of the
\* others; remove_entry with the index inside removes that entry alone; with
\* an index outside either leaves the list as it is.
C39_EditsKeepList ==
    current_setlist # None =>
        LET l == current_setlist[1]
            inside(i) == 0 <= i /\ i < Len(l)
        IN  /\ \A f, t \in EditIndices :
                  IF inside(f) /\ inside(t)
                  THEN MoveInRange(l, f, t)
                  ELSE move_entry(l, f, t) = l
            /\ \A i \in EditIndices :
                  IF inside(i)
                  THEN RemoveInRange(l, i)
                  ELSE remove_entry(l, i) = l

\* C39: a list of three different entries was left by a move, and moving its
\* first entry to the end, or removing its middle entry, changes it.
C39_Witness ==
    /\ last_call = "move_entry"
    /\ current_setlist # None
    /\ Len(current_setlist[1]) = MaxEntries
    /\ Cardinality({current_setlist[1][k] : k \in 1..MaxEntries}) = MaxEntries
    /\ move_entry(current_setlist[1], 0, MaxEntries - 1) # current_setlist[1]
    /\ move_entry(current_setlist[1], 0, MaxEntries - 1)[MaxEntries]
          = current_setlist[1][1]
    /\ Len(remove_entry(current_setlist[1], 1)) = MaxEntries - 1
====
